---- MODULE Spec2Model ----
(***************************************************************************)
(* ENTITY-X orchestration core: capture de-duplication, analyzer fan-out,  *)
(* entity reconciliation, trust-score stamping and the SQLite persistence  *)
(* layer of the Electron main process (src/unnamed/part_001, src/db.js).   *)
(*                                                                         *)
(* Probabilities are integers in percent (0.8 is 80), so that              *)
(* probability x 100 is the integer itself.  JavaScript objects are        *)
(* functions from field names to values; an absent key is `undefined`.     *)
(***************************************************************************)
EXTENDS Integers, Sequences, FiniteSets, TLC

VARIABLES
    now,            \* Date.now(), in clock ticks
    windowAlive,    \* _mainWindow exists and is not destroyed
    dbOpen,         \* db.js _db !== null (initDb succeeded)
    seenImageUrls,  \* _seenImageUrls
    tasks,          \* one record per async pipeline invocation (its awaits)
    trustScore,     \* backend trust engine: the session's running score
    engineLog,      \* backend trust engine: the updates it applied, in order
    ENTITY_CACHE,   \* Map entity_id -> entity
    entities,       \* table entities
    trust_history,  \* table trust_history, in rowid order
    audit_log,      \* table audit_log
    published,      \* webContents.send(...) events, in order
    replies,        \* values returned by the ipcMain.handle handlers
    obsEpoch,       \* history: image URLs observed since the last navigation
    obsCount,       \* history: observations of each URL since the last navigation
    epochsObserved, \* history: number of epochs in which each URL was observed
    imgCalls,       \* history: passive image-analyzer requests issued per URL
    idLog,          \* history: (path, kind, url, title, entity_id) of each reconciliation
    merged,         \* history: the entity each invocation put into ENTITY_CACHE
    lastUpsert,     \* history: per entity_id, the last insertEntity argument and its count
    eventOf,        \* history: per invocation, the index in `published` of the event it sent
    restarts,       \* number of times the application was started again
    lookups,        \* history: what each entity:details call returned, in order
    href,           \* webview: window.location.href of the page shown
    readyState,     \* webview: loading, interactive (DOMContentLoaded ran) or complete
    page,           \* webview: the text the document holds at the moment
    _currentPageUrl,     \* webview preload: _currentPageUrl
    TEXT_URLS_ANALYZED,  \* webview preload: TEXT_URLS_ANALYZED
    _textMutObserver,    \* webview preload: a MutationObserver is connected
    _textDebounceTimer,  \* webview preload: time left on the debounce timer, or Off
    _textCeilingTimer,   \* webview preload: time left on the ceiling timer, or Off
    loadTimer,      \* webview preload: the 800 ms timeout of the load listener is pending
    spaTimers,      \* webview preload: pending 1800 ms timeouts of the URL poller
    inFlight,       \* 'webview:text-content' payloads sent and not yet handled by main
    loads,          \* number of documents the webview has loaded
    sentLog,        \* history: (load, url) of each payload sent
    extracted,      \* history: parity of the number of _tryExtractAndSend runs
    writeFails,     \* db.js tables whose statements raise an error at the moment
    advisory,       \* the advisory handler invocation in flight or last finished
    legal_sessions, \* db.js table legal_sessions, in rowid order
    chainIdx,       \* callOpenRouterAI: index of the model the loop is at
    chainCalls,     \* callOpenRouterAI: models fetched so far, in order
    chainOutcomes,  \* callOpenRouterAI: what each fetched model answered
    chainResult,    \* callOpenRouterAI: pending, returned text or thrown error
    chainSent,      \* callOpenRouterAI: the message list sent with each fetch, in order
    queried,        \* what the last db.js read (history, entity list) returned
    exportTask,     \* the 'evidence:export-pdf' invocation and its result on the way back
    exportBtn       \* entity view: the export button (disabled, label, pending flash timers)

vars == << now, windowAlive, dbOpen, seenImageUrls, tasks, trustScore, engineLog,
           ENTITY_CACHE, entities, trust_history, audit_log, published, replies,
           obsEpoch, obsCount, epochsObserved, imgCalls, idLog, merged, lastUpsert,
           eventOf, restarts, lookups, href, readyState, page, _currentPageUrl,
           TEXT_URLS_ANALYZED, _textMutObserver, _textDebounceTimer, _textCeilingTimer,
           loadTimer, spaTimers, inFlight, loads, sentLog, extracted, writeFails,
           advisory, legal_sessions,
           chainIdx, chainCalls, chainOutcomes, chainResult, chainSent,
           queried, exportTask, exportBtn >>

pipelineVars == << now, windowAlive, dbOpen, seenImageUrls, tasks, trustScore, engineLog,
           ENTITY_CACHE, entities, trust_history, audit_log, published, replies,
           obsEpoch, obsCount, epochsObserved, imgCalls, idLog, merged, lastUpsert,
           eventOf, restarts, lookups >>

reconLog == << idLog, merged, lastUpsert, eventOf >>

chainVars == << chainIdx, chainCalls, chainOutcomes, chainResult, chainSent >>

viewVars == << restarts, lookups >>

faultVars == << writeFails >>

advisoryVars == << advisory, legal_sessions >>

requestVars == << queried, exportTask, exportBtn >>

monitorVars == << href, readyState, page, _currentPageUrl, TEXT_URLS_ANALYZED,
                  _textMutObserver, _textDebounceTimer, _textCeilingTimer, loadTimer,
                  spaTimers, inFlight, loads, sentLog, extracted >>

-----------------------------------------------------------------------------
(* Bounds of the model *)

MaxCaptures == 2        \* pipeline invocations per behaviour
MaxImageCaptures == 2   \* image analyzer requests per behaviour of SpecDedup
MaxTime == 1            \* clock ticks per behaviour
MaxEpochs == 2          \* navigation epochs in which one URL is observed
MaxObs == 2             \* observations of one URL counted per epoch
TicksPerSecond == 2     \* clock ticks in one second of the ISO timestamps

-----------------------------------------------------------------------------
(* JavaScript object helpers *)

Has(o, k) == k \in DOMAIN o

\* { ...a, ...b }
Spread(a, b) ==
    [k \in (DOMAIN a) \cup (DOMAIN b) |-> IF k \in DOMAIN b THEN b[k] ELSE a[k]]

EmptyObj == [k \in {} |-> 0]

Null == "null"
Undefined == "undefined"

\* o.k for a string-valued field: undefined when the key is absent
GetStr(o, k) == IF Has(o, k) THEN o[k] ELSE Undefined

\* a || b on strings: '' , null and undefined are falsy
OrStr(a, b) == IF a \in {"", Null, Undefined} THEN b ELSE a

\* o.k ?? d on numbers
GetNumOr(o, k, d) == IF Has(o, k) THEN o[k] ELSE d

\* String.prototype.toUpperCase on the risk labels and entity types the model uses
ToUpper(s) ==
    CASE s = "low" -> "LOW" [] s = "medium" -> "MEDIUM" [] s = "high" -> "HIGH"
      [] s = "image" -> "IMAGE" [] s = "text" -> "TEXT"
      [] OTHER -> s

\* A text is known by its first 30 characters and its word count.
Text(first30, words) == [first30 |-> first30, words |-> words]
EmptyText == Text("", 0)

Min(a, b) == IF a < b THEN a ELSE b
Max(a, b) == IF a > b THEN a ELSE b

-----------------------------------------------------------------------------
(* URLs, identifiers, time *)

\* A URL is (scheme, rest, ext); its text is their concatenation.
Url(scheme, rest, ext) == [scheme |-> scheme, rest |-> rest, ext |-> ext]
UrlStr(u) == u.scheme \o u.rest \o u.ext

ImgA == Url("https:", "//a/1", ".png")
ImgData == Url("data:", "image/png;base64,AA", "")
PageN == Url("https:", "//n/story", "")
ManualInput == Url("manual:", "//input", "")

isValidHttpUrl(u) == u.scheme \in {"http:", "https:"}

\* crypto.createHash('sha256').update(s).digest('hex').substring(0, 16)
Digest16(s) == "sha256:" \o s

ImageEntityId(u) == Digest16("image-" \o UrlStr(u))
TextEntityId(u, title) == Digest16("text-" \o UrlStr(u) \o "-" \o title)
ManualTextEntityId(t, text) ==
    Digest16("text-manual-" \o ToString(t) \o "-" \o text.first30)

IMAGE_MONITOR_SESSION_ID == "session-1"

\* new Date(ms).toISOString().replace('T', ' ').slice(0, 19): whole seconds
IsoSeconds(t) == t \div TicksPerSecond
_nowIso == IsoSeconds(now)

-----------------------------------------------------------------------------
(* Backend trust engine (backend/trust/trust_engine.py, not in src/) *)

Clamp(x, lo, hi) == Max(lo, Min(hi, x))

InitialTrustScore == 100

TrustDelta(prob) == 0 - prob

UnclampedUpdate(score, prob) == score + TrustDelta(prob)

TrustUpdate(score, prob) == Clamp(score + TrustDelta(prob), 0, 100)

-----------------------------------------------------------------------------
(* db.js write helpers *)

_ready == dbOpen

DbTables == {"entities", "trust_history", "audit_log"}

AllDbTables == DbTables \cup {"legal_sessions"}

\* the prepared statement of `table` raises an error when run
Fails(table) == table \in writeFails

EscapesWhenFailing(table) == ~_ready \/ Fails(table)

\* an error of the write to `table` leaves the db.js function: never, each write
\* returns early without a database and catches what its statement raises
Escapes(table) == FALSE

EntityRow(p, t) ==
    [ entity_id      |-> OrStr(GetStr(p, "entity_id"), "unknown"),
      entity_type    |-> OrStr(GetStr(p, "entity_type"), "UNKNOWN"),
      source_url     |-> OrStr(GetStr(p, "source_url"),
                               OrStr(GetStr(p, "url"), OrStr(GetStr(p, "image_url"), ""))),
      title          |-> OrStr(GetStr(p, "title"), OrStr(GetStr(p, "content_title"), "")),
      extracted_text |-> IF Has(p, "text") THEN p.text ELSE EmptyText,
      risk_level     |-> ToUpper(OrStr(GetStr(p, "risk_level"),
                               OrStr(GetStr(p, "misinformation_risk"), "LOW"))),
      analysis_json  |-> IF Has(p, "analysis") THEN p.analysis ELSE EmptyObj,
      detected_at    |-> IF Has(p, "detected_at") /\ p.detected_at # 0
                            THEN IsoSeconds(p.detected_at) ELSE IsoSeconds(t) ]

PlainInsert(rows, row) == rows \cup {row}

\* INSERT OR REPLACE INTO entities ... : the row with the same primary key goes
InsertOrReplace(rows, row) ==
    {r \in rows : r.entity_id # row.entity_id} \cup {row}

insertEntity(rows, p, t) ==
    IF ~_ready \/ Fails("entities") THEN rows ELSE InsertOrReplace(rows, EntityRow(p, t))

SwappedTrustRow(entityId, trustScore_, delta, t) ==
    [ entity_id |-> entityId, trust_score |-> delta, delta |-> trustScore_,
      timestamp |-> IsoSeconds(t) ]

TrustRow(entityId, trustScore_, delta, t) ==
    [ entity_id |-> entityId, trust_score |-> trustScore_, delta |-> delta,
      timestamp |-> IsoSeconds(t) ]

AppendTrustTwice(hist, entityId, trustScore_, delta, t) ==
    IF ~_ready \/ Fails("trust_history") THEN hist
    ELSE hist \o << TrustRow(entityId, trustScore_, delta, t),
                    TrustRow(entityId, trustScore_, delta, t) >>

insertTrustHistory(hist, entityId, trustScore_, delta, t) ==
    IF ~_ready \/ Fails("trust_history") THEN hist
    ELSE Append(hist, TrustRow(entityId, trustScore_, delta, t))

\* _uuid(): `${Date.now().toString(36)}-${Math.random().toString(36).slice(2, 9)}`
_uuid(t, rnd) == << t, rnd >>

AuditInsertOrReplace(log, row) ==
    {r \in log : r.event_id # row.event_id} \cup {row}

\* INSERT OR IGNORE INTO audit_log ... : a row with the same event_id stays
AuditInsertOrIgnore(log, row) ==
    IF \E r \in log : r.event_id = row.event_id THEN log ELSE log \cup {row}

insertAuditLog(log, eventType, entityId, sessionId, metadata, t, rnd) ==
    IF ~_ready \/ Fails("audit_log") THEN log
    ELSE AuditInsertOrIgnore(log, [ event_id   |-> _uuid(t, rnd),
                                    event_type |-> eventType,
                                    entity_id  |-> entityId,
                                    session_id |-> sessionId,
                                    timestamp  |-> IsoSeconds(t),
                                    metadata   |-> metadata ])

\* Math.random() of _uuid(): a suffix no row of this tick has yet, or (a collision) one
\* that some row of this tick already has; fresh suffixes are taken in order.
UsedRandoms == {r.event_id[2] : r \in {x \in audit_log : x.event_id[1] = now}}
Randoms == UsedRandoms \cup {Cardinality(UsedRandoms) + 1}

-----------------------------------------------------------------------------
(* Inputs the environment can supply *)

ImageUrls == {ImgA, ImgData}

\* /\.(jpg|jpeg|png|webp|gif|avif|bmp)(\?|$)/i.test(details.url)
InterceptorImageExt(u) ==
    u.ext \in {".jpg", ".jpeg", ".png", ".webp", ".gif", ".avif", ".bmp"}

\* /\.(jpg|jpeg|png|gif|webp|bmp|svg)(\?|$)/i.test(url)
ManualImageExt(u) ==
    u.ext \in {".jpg", ".jpeg", ".png", ".gif", ".webp", ".bmp", ".svg"}

\* What the image analyzer may answer (the detector is a black box).
ImageVerdicts ==
    { [fake_probability |-> 80, risk_level |-> "HIGH", forensic_explanation |-> <<"i1">>],
      [fake_probability |-> 30, risk_level |-> "LOW", forensic_explanation |-> <<>>] }

-----------------------------------------------------------------------------
(* Pipeline invocations *)

Pending == [st |-> "pending", body |-> EmptyObj]
NoGemini == [st |-> "na", val |-> EmptyObj]
GeminiPending == [st |-> "pending", val |-> EmptyObj]

NewTask(path, stage, url, title, text, gemini) ==
    [ path |-> path, stage |-> stage, url |-> url, title |-> title, text |-> text,
      res |-> Pending, gemini |-> gemini ]

Live(i) == i \in DOMAIN tasks /\ tasks[i].stage # "done"

Finish(i) == tasks' = [tasks EXCEPT ![i].stage = "done"]

Event(channel, payload) == [channel |-> channel, payload |-> payload]

IdEntry(path, kind, url, title, id) ==
    [path |-> path, kind |-> kind, url |-> UrlStr(url), title |-> title, id |-> id]

-----------------------------------------------------------------------------
(* Backend: image analyzer with the trust engine behind it *)

ImageAnalysis(v, score, delta) ==
    Spread(v, [ trust_score |-> score, trust_score_delta |-> delta,
                session_id |-> IMAGE_MONITOR_SESSION_ID ])

EngineEntry(i, prob, score, delta) ==
    [task |-> i, prob |-> prob, score |-> score, delta |-> delta]

BackendImageOk(verdicts) ==
    \E i \in DOMAIN tasks, v \in verdicts :
        /\ tasks[i].path \in {"image", "manualImage"}
        /\ tasks[i].stage = "analyze"
        /\ tasks[i].res.st = "pending"
        /\ LET score == TrustUpdate(trustScore, v.fake_probability)
               delta == TrustDelta(v.fake_probability)
           IN  /\ trustScore' = score
               /\ engineLog' = Append(engineLog, EngineEntry(i, v.fake_probability, score, delta))
               /\ tasks' = [tasks EXCEPT ![i].res =
                               [st |-> "ok", body |-> ImageAnalysis(v, score, delta)]]
        /\ UNCHANGED << now, windowAlive, dbOpen, seenImageUrls, ENTITY_CACHE, entities,
                        trust_history, audit_log, published, replies,
                        obsEpoch, obsCount, epochsObserved, imgCalls, reconLog, chainVars, viewVars, monitorVars, faultVars, advisoryVars, requestVars >>

\* The analyzer answers non-2xx, or the request fails (network error, timeout).
BackendFail ==
    \E i \in DOMAIN tasks, st \in {"http_error", "rejected"} :
        /\ tasks[i].stage = "analyze"
        /\ tasks[i].res.st = "pending"
        /\ tasks' = [tasks EXCEPT ![i].res = [st |-> st, body |-> EmptyObj]]
        /\ UNCHANGED << now, windowAlive, dbOpen, seenImageUrls, trustScore, engineLog,
                        ENTITY_CACHE, entities, trust_history, audit_log, published,
                        replies, obsEpoch, obsCount, epochsObserved, imgCalls, reconLog,
                        chainVars, viewVars, monitorVars, faultVars, advisoryVars, requestVars >>

-----------------------------------------------------------------------------
(* Passive image path *)

\* the request is issued only when no earlier analysis is in flight
PostImageRequestWhenIdle(u) ==
    IF ~isValidHttpUrl(u) \/ \E i \in DOMAIN tasks : tasks[i].stage = "analyze"
    THEN UNCHANGED << tasks, imgCalls >>
    ELSE /\ tasks' = Append(tasks, NewTask("image", "analyze", u, "", EmptyText, NoGemini))
         /\ imgCalls' = [imgCalls EXCEPT ![u] = @ + 1]

\* postImageUrlToBackend up to its first await: the request is issued
PostImageRequest(u) ==
    IF ~isValidHttpUrl(u)
    THEN UNCHANGED << tasks, imgCalls >>
    ELSE /\ tasks' = Append(tasks, NewTask("image", "analyze", u, "", EmptyText, NoGemini))
         /\ imgCalls' = [imgCalls EXCEPT ![u] = @ + 1]

Observe(u) ==
    /\ u \in obsEpoch \/ epochsObserved[u] < MaxEpochs
    /\ obsCount' = [obsCount EXCEPT ![u] = Min(@ + 1, MaxObs)]
    /\ obsEpoch' = obsEpoch \cup {u}
    /\ epochsObserved' = IF u \in obsEpoch THEN epochsObserved
                         ELSE [epochsObserved EXCEPT ![u] = @ + 1]

NeverSeen(u) == FALSE

AlreadySeen(u) == u \in seenImageUrls

\* webviewSession.webRequest.onCompleted handler
InterceptImage(cap, urls) ==
    \E u \in {x \in urls : isValidHttpUrl(x)},
       status2xx \in BOOLEAN, mimeImage \in BOOLEAN, typeImage \in BOOLEAN :
        /\ Len(tasks) < cap \/ u \in seenImageUrls
        /\ IF \/ ~windowAlive
              \/ ~status2xx
              \/ ~(mimeImage \/ InterceptorImageExt(u) \/ typeImage)
           THEN UNCHANGED << seenImageUrls, tasks, imgCalls, obsEpoch, obsCount, epochsObserved >>
           ELSE /\ Observe(u)
                /\ IF AlreadySeen(u)
                   THEN UNCHANGED << seenImageUrls, tasks, imgCalls >>
                   ELSE /\ seenImageUrls' = seenImageUrls \cup {u}
                        /\ PostImageRequest(u)
        /\ UNCHANGED << now, windowAlive, dbOpen, trustScore, engineLog, ENTITY_CACHE,
                        entities, trust_history, audit_log, published, replies, reconLog,
                        chainVars, viewVars, monitorVars, faultVars, advisoryVars, requestVars >>

\* ipcMain.on('image-monitor:url')
IpcImageUrl(cap, urls) ==
    \E u \in urls :
        /\ Len(tasks) < cap \/ u \in seenImageUrls
        /\ Observe(u)
        /\ IF AlreadySeen(u)
           THEN UNCHANGED << seenImageUrls, tasks, imgCalls >>
           ELSE /\ seenImageUrls' = seenImageUrls \cup {u}
                /\ PostImageRequest(u)
        /\ UNCHANGED << now, windowAlive, dbOpen, trustScore, engineLog, ENTITY_CACHE,
                        entities, trust_history, audit_log, published, replies, reconLog,
                        chainVars, viewVars, monitorVars, faultVars, advisoryVars, requestVars >>

ClearSeen == {}

\* ipcMain.on('webview:navigated')
Navigated ==
    /\ obsEpoch # {}
    /\ seenImageUrls' = ClearSeen
    /\ obsEpoch' = {}
    /\ obsCount' = [u \in ImageUrls |-> 0]
    /\ UNCHANGED << now, windowAlive, dbOpen, tasks, trustScore, engineLog, ENTITY_CACHE,
                    entities, trust_history, audit_log, published, replies,
                    epochsObserved, imgCalls, reconLog, chainVars, viewVars, monitorVars, faultVars, advisoryVars, requestVars >>

ImageEntity(entityId, u, analysis, t) ==
    [ entity_id |-> entityId,
      entity_type |-> "IMAGE",
      image_url |-> UrlStr(u),
      fake_probability |-> analysis.fake_probability,
      risk_level |-> analysis.risk_level,
      forensic_explanation |->
          IF Has(analysis, "forensic_explanation") THEN analysis.forensic_explanation ELSE <<>>,
      trust_score |-> analysis.trust_score,
      trust_score_delta |-> analysis.trust_score_delta,
      session_id |-> analysis.session_id,
      detected_at |-> t ]

ImageEntityParams(entityId, u, analysis) ==
    [ entity_id |-> entityId, entity_type |-> "IMAGE", source_url |-> UrlStr(u),
      risk_level |-> analysis.risk_level,
      analysis |-> [ fake_probability |-> analysis.fake_probability,
                     trust_score |-> analysis.trust_score,
                     forensic_explanation |->
                         IF Has(analysis, "forensic_explanation")
                         THEN analysis.forensic_explanation ELSE <<>> ] ]

ImageEvent(entityId, u, analysis, t) ==
    Event("image-monitor:analysis",
      [ entity_id |-> entityId,
        image_url |-> UrlStr(u),
        fake_probability |-> analysis.fake_probability,
        risk_level |-> analysis.risk_level,
        forensic_explanation |->
            IF Has(analysis, "forensic_explanation") THEN analysis.forensic_explanation ELSE <<>>,
        trust_score |-> analysis.trust_score,
        trust_score_delta |-> analysis.trust_score_delta,
        session_id |-> analysis.session_id,
        analyzed_at |-> t ])

\* an id already cached keeps its entry
CacheKeepFirst(cache, id, entity) ==
    [k \in (DOMAIN cache) \cup {id} |-> IF k \in DOMAIN cache THEN cache[k] ELSE entity]

CacheSet(cache, id, entity) ==
    [k \in (DOMAIN cache) \cup {id} |-> IF k = id THEN entity ELSE cache[k]]

\* senderWebContents.send(...) at the end of the try block, reached unless a db
\* write before it threw
Send(pub, event) ==
    IF \E table \in DbTables : Escapes(table) THEN pub ELSE Append(pub, event)

\* history of one reconciliation: invocation i cached `entity` and upserted `params`
Reconciled(i, entity, params, entry) ==
    /\ idLog' = idLog \cup {entry}
    /\ merged' = CacheSet(merged, i, entity)
    /\ lastUpsert' = CacheSet(lastUpsert, params.entity_id,
           [ p |-> params, t |-> now,
             n |-> IF Has(lastUpsert, params.entity_id)
                   THEN lastUpsert[params.entity_id].n + 1 ELSE 1 ])
    /\ eventOf' = IF tasks[i].path \in {"image", "text"}
                  THEN CacheSet(eventOf, i, Len(published) + 1) ELSE eventOf

\* postImageUrlToBackend after `await fetch(...)`
CompleteImage ==
    \E i \in DOMAIN tasks, rnd \in Randoms :
        /\ tasks[i].path = "image"
        /\ tasks[i].stage = "analyze"
        /\ tasks[i].res.st # "pending"
        /\ Finish(i)
        /\ LET u == tasks[i].url
               analysis == tasks[i].res.body
               entityId == ImageEntityId(u)
           IN  CASE tasks[i].res.st = "rejected" ->
                      /\ audit_log' = insertAuditLog(audit_log, "ANALYSIS_FAILED", "",
                             IMAGE_MONITOR_SESSION_ID,
                             [type |-> "IMAGE", url |-> UrlStr(u)], now, rnd)
                      /\ UNCHANGED << ENTITY_CACHE, entities, trust_history, published, reconLog >>
                 [] tasks[i].res.st = "http_error" ->
                      UNCHANGED << ENTITY_CACHE, entities, trust_history, audit_log,
                                   published, reconLog >>
                 [] tasks[i].res.st = "ok" /\ ~windowAlive ->
                      UNCHANGED << ENTITY_CACHE, entities, trust_history, audit_log,
                                   published, reconLog >>
                 [] tasks[i].res.st = "ok" /\ windowAlive ->
                      /\ ENTITY_CACHE' = CacheSet(ENTITY_CACHE, entityId,
                                                  ImageEntity(entityId, u, analysis, now))
                      /\ entities' = insertEntity(entities,
                                                  ImageEntityParams(entityId, u, analysis), now)
                      /\ trust_history' = insertTrustHistory(trust_history, entityId,
                             GetNumOr(analysis, "trust_score", 0),
                             GetNumOr(analysis, "trust_score_delta", 0), now)
                      /\ audit_log' = insertAuditLog(audit_log, "ENTITY_DETECTED", entityId,
                             IMAGE_MONITOR_SESSION_ID,
                             [type |-> "IMAGE", risk_level |-> analysis.risk_level,
                              fake_probability |-> analysis.fake_probability], now, rnd)
                      /\ published' = Send(published, ImageEvent(entityId, u, analysis, now))
                      /\ Reconciled(i, ImageEntity(entityId, u, analysis, now),
                                    ImageEntityParams(entityId, u, analysis),
                                    IdEntry("image", "IMAGE", u, "", entityId))
        /\ UNCHANGED << now, windowAlive, dbOpen, seenImageUrls, trustScore, engineLog,
                        replies, obsEpoch, obsCount, epochsObserved, imgCalls, chainVars, viewVars, monitorVars, faultVars, advisoryVars, requestVars >>

-----------------------------------------------------------------------------
(* Backend: primary text analyzer with the trust engine behind it *)

\* What the primary heuristic may answer (the detector is a black box).
TextVerdicts ==
    { [ai_generated_probability |-> 20, misinformation_risk |-> "LOW",
       credibility_score |-> 70, explanation |-> <<"p1">>],
      [ai_generated_probability |-> 80, misinformation_risk |-> "MEDIUM",
       credibility_score |-> 40, explanation |-> <<>>] }

TextAnalysis(v, score, delta) ==
    Spread(v, [ trust_score |-> score, trust_score_delta |-> delta,
                session_id |-> IMAGE_MONITOR_SESSION_ID ])

TextPaths == {"text", "manualText", "manualPaste"}

BackendTextOk(verdicts) ==
    \E i \in DOMAIN tasks, v \in verdicts :
        /\ tasks[i].path \in TextPaths
        /\ tasks[i].stage = "analyze"
        /\ tasks[i].res.st = "pending"
        /\ LET score == TrustUpdate(trustScore, v.ai_generated_probability)
               delta == TrustDelta(v.ai_generated_probability)
           IN  /\ trustScore' = score
               /\ engineLog' = Append(engineLog,
                                  EngineEntry(i, v.ai_generated_probability, score, delta))
               /\ tasks' = [tasks EXCEPT ![i].res =
                               [st |-> "ok", body |-> TextAnalysis(v, score, delta)]]
        /\ UNCHANGED << now, windowAlive, dbOpen, seenImageUrls, ENTITY_CACHE, entities,
                        trust_history, audit_log, published, replies,
                        obsEpoch, obsCount, epochsObserved, imgCalls, reconLog, chainVars, viewVars, monitorVars, faultVars, advisoryVars, requestVars >>

-----------------------------------------------------------------------------
(* Enrichment: callGeminiAnalysis *)

Slice(s, n) == SubSeq(s, 1, Min(Len(s), n))

\* parseFloat(o.k) || d : absent, NaN and 0 all give d
ParseFloatOr(o, k, d) == IF Has(o, k) /\ o[k] # 0 THEN o[k] ELSE d

Risks == {"LOW", "MEDIUM", "HIGH"}

\* the object callGeminiAnalysis returns for a parsed answer with a string summary
GeminiNormalize(parsed) ==
    [ ai_generated_probability |->
          Max(0, Min(100, ParseFloatOr(parsed, "ai_generated_probability", 0))),
      misinformation_risk |->
          IF GetStr(parsed, "misinformation_risk") \in Risks
          THEN parsed.misinformation_risk ELSE "LOW",
      credibility_score |->
          Max(0, Min(100, ParseFloatOr(parsed, "credibility_score", 50))),
      forensic_explanation |->
          IF Has(parsed, "forensic_explanation") THEN Slice(parsed.forensic_explanation, 6)
          ELSE << >>,
      ai_summary |-> parsed.summary,
      topic |-> OrStr(GetStr(parsed, "topic"), "General"),
      key_claims |->
          IF Has(parsed, "key_claims") THEN Slice(parsed.key_claims, 5) ELSE << >> ]

GeminiNull == [st |-> "null", val |-> EmptyObj]

GeminiThrows(resp) == [st |-> "throws", val |-> EmptyObj]

\* resp is what the provider did: kind "nokey" (no API key configured, nothing is
\* fetched), "status" (non-2xx), "throw" (network error or the 25 s timeout),
\* "garbage" (text that JSON.parse rejects), "json" (parsed)
callGeminiAnalysis(resp) ==
    CASE resp.kind = "nokey" -> GeminiNull
      [] resp.kind = "status" -> GeminiNull
      [] resp.kind = "throw" -> GeminiNull
      [] resp.kind = "garbage" -> GeminiNull
      [] resp.kind = "json" ->
            IF ~Has(resp.parsed, "summary") THEN GeminiNull
            ELSE [st |-> "ok", val |-> GeminiNormalize(resp.parsed)]

GeminiAnswer(parsed) == [kind |-> "json", parsed |-> parsed]

GeminiFailures ==
    { [kind |-> "nokey", parsed |-> EmptyObj],
      [kind |-> "status", parsed |-> EmptyObj],
      [kind |-> "throw", parsed |-> EmptyObj],
      [kind |-> "garbage", parsed |-> EmptyObj] }

GeminiGood ==
    [ summary |-> "S", topic |-> "Politics", key_claims |-> <<"k1">>,
      ai_generated_probability |-> 90, misinformation_risk |-> "HIGH",
      credibility_score |-> 30, forensic_explanation |-> <<"g1", "g2">> ]

GeminiResponses == GeminiFailures \cup {GeminiAnswer(GeminiGood)}

\* the provider's response to the call of invocation i is kept
Recorded(i, r) ==
    /\ queried' = [op |-> "callGeminiAnalysis", args |-> [task |-> i, response |-> r],
                   records |-> << >>, total |-> 0]
    /\ UNCHANGED << exportTask, exportBtn >>

\* the enrichment call of invocation i settles; with `recorded` the provider's
\* response is kept as the last call made
GeminiSettleWith(responses, recorded) ==
    \E i \in DOMAIN tasks, r \in responses :
        /\ tasks[i].gemini.st = "pending"
        /\ tasks[i].stage = "analyze"
        /\ tasks' = [tasks EXCEPT ![i].gemini = callGeminiAnalysis(r)]
        /\ IF recorded THEN Recorded(i, r) ELSE UNCHANGED requestVars
        /\ UNCHANGED << now, windowAlive, dbOpen, seenImageUrls, trustScore, engineLog,
                        ENTITY_CACHE, entities, trust_history, audit_log, published,
                        replies, obsEpoch, obsCount, epochsObserved, imgCalls, reconLog,
                        chainVars, viewVars, monitorVars, faultVars, advisoryVars >>

GeminiSettle(responses) == GeminiSettleWith(responses, FALSE)

\* the primary request alone has settled
PrimarySettled(i) == tasks[i].res.st # "pending"

\* Promise.all([fetch(...), callGeminiAnalysis(...)]) has settled
AllSettled(i) ==
    \/ tasks[i].res.st = "rejected"
    \/ tasks[i].gemini.st = "throws"
    \/ tasks[i].res.st \in {"ok", "http_error"} /\ tasks[i].gemini.st \in {"null", "ok"}

\* the promise rejected: the catch block runs
Rejected(i) == tasks[i].res.st = "rejected" \/ tasks[i].gemini.st = "throws"

-----------------------------------------------------------------------------
(* Entity reconciliation for text *)

GeminiOverrides(g) ==
    [ ai_generated_probability |-> g.ai_generated_probability,
      misinformation_risk |-> g.misinformation_risk,
      credibility_score |-> g.credibility_score,
      explanation |-> g.forensic_explanation,
      ai_summary |-> g.ai_summary,
      topic |-> g.topic,
      key_claims |-> g.key_claims ]

NoEnrichment == [ai_summary |-> Null, topic |-> Null, key_claims |-> << >>]

LeftUndefined(gemini) ==
    IF gemini.st = "ok" THEN GeminiOverrides(gemini.val)
    ELSE [ai_summary |-> Undefined, topic |-> Undefined, key_claims |-> Undefined]

\* ...(gemini ? { overrides } : { ai_summary: null, topic: null, key_claims: [] })
EnrichmentPart(gemini) ==
    IF gemini.st = "ok" THEN GeminiOverrides(gemini.val) ELSE NoEnrichment

-----------------------------------------------------------------------------
(* Passive text path *)

Titles == {"Alpha", "Beta"}
ArticleText == Text("Lorem ipsum", 200)
PageFile == Url("file:", "///tmp/a", ".html")
TextUrls == {PageN, PageFile}

TextPayload(title, u, text, t) ==
    [title |-> title, url |-> UrlStr(u), text |-> text, word_count |-> text.words,
     timestamp |-> t]

\* ipcMain.on('text-monitor:article') -> postTextToBackend up to its first await
IpcTextArticle(cap) ==
    \E u \in TextUrls, title \in Titles :
        /\ Len(tasks) < cap
        /\ isValidHttpUrl(u)
        /\ tasks' = Append(tasks, NewTask("text", "analyze", u, title, ArticleText,
                                          GeminiPending))
        /\ UNCHANGED << now, windowAlive, dbOpen, seenImageUrls, trustScore, engineLog,
                        ENTITY_CACHE, entities, trust_history, audit_log, published,
                        replies, obsEpoch, obsCount, epochsObserved, imgCalls, reconLog,
                        chainVars, viewVars, monitorVars, faultVars, advisoryVars, requestVars >>

\* the entity object literal of postTextToBackend
TextEntity(entityId, payload, analysis, gemini, t) ==
    Spread(Spread(Spread(Spread([entity_id |-> entityId, entity_type |-> "TEXT"],
                                payload), analysis), EnrichmentPart(gemini)),
           [detected_at |-> t])

TextEntityParams(entity) ==
    [ entity_id |-> entity.entity_id, entity_type |-> "TEXT", source_url |-> entity.url,
      title |-> GetStr(entity, "content_title"),
      text |-> IF Has(entity, "text") THEN entity.text ELSE EmptyText,
      risk_level |-> entity.misinformation_risk,
      analysis |-> [ ai_generated_probability |-> entity.ai_generated_probability,
                     credibility_score |-> entity.credibility_score,
                     trust_score |-> entity.trust_score ] ]

TextEventOfPrimary(entity, payload, analysis, t) ==
    Event("text-monitor:analysis",
      [ entity_id |-> entity.entity_id,
        entity_type |-> "TEXT",
        content_title |-> payload.title,
        url |-> payload.url,
        word_count |-> payload.word_count,
        ai_generated_probability |-> analysis.ai_generated_probability,
        misinformation_risk |-> analysis.misinformation_risk,
        credibility_score |-> analysis.credibility_score,
        explanation |-> IF Has(analysis, "explanation") THEN analysis.explanation ELSE << >>,
        trust_score |-> analysis.trust_score,
        trust_score_delta |-> analysis.trust_score_delta,
        session_id |-> analysis.session_id,
        ai_summary |-> entity.ai_summary,
        topic |-> entity.topic,
        key_claims |-> entity.key_claims,
        analyzed_at |-> t ])

TextEvent(entity, payload, analysis, t) ==
    Event("text-monitor:analysis",
      [ entity_id |-> entity.entity_id,
        entity_type |-> "TEXT",
        content_title |-> payload.title,
        url |-> payload.url,
        word_count |-> payload.word_count,
        ai_generated_probability |-> entity.ai_generated_probability,
        misinformation_risk |-> entity.misinformation_risk,
        credibility_score |-> entity.credibility_score,
        explanation |-> IF Has(entity, "explanation") THEN entity.explanation ELSE << >>,
        trust_score |-> analysis.trust_score,
        trust_score_delta |-> analysis.trust_score_delta,
        session_id |-> analysis.session_id,
        ai_summary |-> entity.ai_summary,
        topic |-> entity.topic,
        key_claims |-> entity.key_claims,
        analyzed_at |-> t ])

\* postTextToBackend after `await Promise.all([...])`
CompleteText ==
    \E i \in DOMAIN tasks, rnd \in Randoms :
        /\ tasks[i].path = "text"
        /\ tasks[i].stage = "analyze"
        /\ AllSettled(i)
        /\ Finish(i)
        /\ LET payload == TextPayload(tasks[i].title, tasks[i].url, tasks[i].text, now)
               analysis == tasks[i].res.body
               entityId == TextEntityId(tasks[i].url, tasks[i].title)
               entity == TextEntity(entityId, payload, analysis, tasks[i].gemini, now)
           IN  CASE Rejected(i) ->
                      /\ audit_log' = insertAuditLog(audit_log, "ANALYSIS_FAILED", "",
                             IMAGE_MONITOR_SESSION_ID,
                             [type |-> "TEXT", url |-> payload.url], now, rnd)
                      /\ UNCHANGED << ENTITY_CACHE, entities, trust_history, published, reconLog >>
                 [] ~Rejected(i) /\ tasks[i].res.st = "http_error" ->
                      UNCHANGED << ENTITY_CACHE, entities, trust_history, audit_log,
                                   published, reconLog >>
                 [] ~Rejected(i) /\ tasks[i].res.st = "ok" /\ ~windowAlive ->
                      UNCHANGED << ENTITY_CACHE, entities, trust_history, audit_log,
                                   published, reconLog >>
                 [] ~Rejected(i) /\ tasks[i].res.st = "ok" /\ windowAlive ->
                      /\ ENTITY_CACHE' = CacheSet(ENTITY_CACHE, entityId, entity)
                      /\ entities' = insertEntity(entities, TextEntityParams(entity), now)
                      /\ trust_history' = insertTrustHistory(trust_history, entityId,
                             GetNumOr(entity, "trust_score", 0),
                             GetNumOr(entity, "trust_score_delta", 0), now)
                      /\ audit_log' = insertAuditLog(audit_log, "ENTITY_DETECTED", entityId,
                             IMAGE_MONITOR_SESSION_ID,
                             [type |-> "TEXT", risk_level |-> entity.misinformation_risk],
                             now, rnd)
                      /\ published' = Send(published, TextEvent(entity, payload, analysis, now))
                      /\ Reconciled(i, entity, TextEntityParams(entity),
                             IdEntry("text", "TEXT", tasks[i].url, tasks[i].title, entityId))
        /\ UNCHANGED << now, windowAlive, dbOpen, seenImageUrls, trustScore, engineLog,
                        replies, obsEpoch, obsCount, epochsObserved, imgCalls, chainVars, viewVars, monitorVars, faultVars, advisoryVars, requestVars >>

-----------------------------------------------------------------------------
(* Manual analysis: ipcMain.handle('analyze:manual-url') and ('analyze:manual-text') *)

Reply(i, success, error, entity) ==
    [task |-> i, success |-> success, error |-> error, entity |-> entity]

ManualUrls == {ImgA, PageN, ImgData}

\* analyze:manual-url up to its first await
ManualUrlOf(cap, urls) ==
    \E u \in urls :
        /\ Len(tasks) < cap
        /\ IF ~isValidHttpUrl(u)
           THEN /\ tasks' = Append(tasks, NewTask("manualUrl", "done", u, "", EmptyText, NoGemini))
                /\ replies' = Append(replies, Reply(Len(tasks) + 1, FALSE, "Invalid URL", EmptyObj))
           ELSE IF ManualImageExt(u)
           THEN /\ tasks' = Append(tasks, NewTask("manualImage", "analyze", u, "", EmptyText,
                                                  NoGemini))
                /\ UNCHANGED replies
           ELSE /\ tasks' = Append(tasks, NewTask("manualText", "page", u, "", EmptyText,
                                                  NoGemini))
                /\ UNCHANGED replies
        /\ UNCHANGED << now, windowAlive, dbOpen, seenImageUrls, trustScore, engineLog,
                        ENTITY_CACHE, entities, trust_history, audit_log, published,
                        obsEpoch, obsCount, epochsObserved, imgCalls, reconLog, chainVars, viewVars, monitorVars, faultVars, advisoryVars, requestVars >>

ManualUrl(cap) == ManualUrlOf(cap, ManualUrls)

\* the title the page's <title> tag gives, or the URL when it has none
PageTitles(u) == {"Alpha", UrlStr(u)}

\* analyze:manual-url, article branch, after `await fetch(url)` / `pageRes.text()`
ManualPageFetched ==
    \E i \in DOMAIN tasks :
        /\ tasks[i].path = "manualText"
        /\ tasks[i].stage = "page"
        /\ \/ /\ Finish(i)
              /\ replies' = Append(replies, Reply(i, FALSE, "fetch failed", EmptyObj))
           \/ \E title \in PageTitles(tasks[i].url) :
                 /\ tasks' = [tasks EXCEPT ![i].stage = "analyze", ![i].title = title,
                                           ![i].text = ArticleText,
                                           ![i].gemini = GeminiPending]
                 /\ UNCHANGED replies
        /\ UNCHANGED << now, windowAlive, dbOpen, seenImageUrls, trustScore, engineLog,
                        ENTITY_CACHE, entities, trust_history, audit_log, published,
                        obsEpoch, obsCount, epochsObserved, imgCalls, reconLog, chainVars, viewVars, monitorVars, faultVars, advisoryVars, requestVars >>

ManualImageEntity(entityId, u, analysis, t) ==
    Spread([ entity_id |-> entityId, entity_type |-> "IMAGE", image_url |-> UrlStr(u),
             detected_at |-> t ], analysis)

ManualImageParams(entity, u, analysis) ==
    [ entity_id |-> entity.entity_id, entity_type |-> "IMAGE", source_url |-> UrlStr(u),
      risk_level |-> analysis.risk_level, analysis |-> analysis,
      detected_at |-> entity.detected_at ]

\* analyze:manual-url, image branch, after `await fetch(IMAGE_MONITOR_API_URL)`
CompleteManualImage ==
    \E i \in DOMAIN tasks, rnd \in Randoms :
        /\ tasks[i].path = "manualImage"
        /\ tasks[i].stage = "analyze"
        /\ tasks[i].res.st # "pending"
        /\ Finish(i)
        /\ LET u == tasks[i].url
               analysis == tasks[i].res.body
               entityId == ImageEntityId(u)
               entity == ManualImageEntity(entityId, u, analysis, now)
           IN  CASE tasks[i].res.st = "rejected" ->
                      /\ replies' = Append(replies, Reply(i, FALSE, "fetch failed", EmptyObj))
                      /\ UNCHANGED << ENTITY_CACHE, entities, trust_history, audit_log, reconLog >>
                 [] tasks[i].res.st = "http_error" ->
                      /\ replies' = Append(replies, Reply(i, FALSE, "HTTP status", EmptyObj))
                      /\ UNCHANGED << ENTITY_CACHE, entities, trust_history, audit_log, reconLog >>
                 [] tasks[i].res.st = "ok" ->
                      /\ ENTITY_CACHE' = CacheSet(ENTITY_CACHE, entityId, entity)
                      /\ entities' = insertEntity(entities,
                             ManualImageParams(entity, u, analysis), now)
                      /\ trust_history' = insertTrustHistory(trust_history, entityId,
                             GetNumOr(analysis, "trust_score", 0),
                             GetNumOr(analysis, "trust_score_delta", 0), now)
                      /\ audit_log' = insertAuditLog(audit_log, "MANUAL_ANALYSIS", entityId, "",
                             [type |-> "IMAGE", url |-> UrlStr(u)], now, rnd)
                      /\ replies' = Append(replies, Reply(i, TRUE, "", entity))
                      /\ Reconciled(i, entity, ManualImageParams(entity, u, analysis),
                                    IdEntry("manualUrlImage", "IMAGE", u, "", entityId))
        /\ UNCHANGED << now, windowAlive, dbOpen, seenImageUrls, trustScore, engineLog,
                        published, obsEpoch, obsCount, epochsObserved, imgCalls, chainVars, viewVars, monitorVars, faultVars, advisoryVars, requestVars >>

\* the entity object literal of both manual text handlers
ManualTextEntity(entityId, title, u, analysis, gemini, t) ==
    Spread(Spread([ entity_id |-> entityId, entity_type |-> "TEXT", content_title |-> title,
                    url |-> UrlStr(u), detected_at |-> t ], analysis),
           EnrichmentPart(gemini))

ManualTextParams(entity, u, title) ==
    [ entity_id |-> entity.entity_id, entity_type |-> "TEXT", source_url |-> UrlStr(u),
      title |-> title, risk_level |-> entity.misinformation_risk, analysis |-> entity,
      detected_at |-> entity.detected_at ]

ManualPasteParams(entity, u, title, text) ==
    [ entity_id |-> entity.entity_id, entity_type |-> "TEXT", source_url |-> UrlStr(u),
      title |-> title, text |-> text, risk_level |-> entity.misinformation_risk,
      analysis |-> entity, detected_at |-> entity.detected_at ]

\* analyze:manual-url, article branch, after `await Promise.all([...])`
CompleteManualText ==
    \E i \in DOMAIN tasks, rnd \in Randoms :
        /\ tasks[i].path = "manualText"
        /\ tasks[i].stage = "analyze"
        /\ AllSettled(i)
        /\ Finish(i)
        /\ LET u == tasks[i].url
               title == tasks[i].title
               analysis == tasks[i].res.body
               entityId == TextEntityId(u, title)
               entity == ManualTextEntity(entityId, title, u, analysis, tasks[i].gemini, now)
           IN  CASE Rejected(i) ->
                      /\ replies' = Append(replies, Reply(i, FALSE, "fetch failed", EmptyObj))
                      /\ UNCHANGED << ENTITY_CACHE, entities, trust_history, audit_log, reconLog >>
                 [] ~Rejected(i) /\ tasks[i].res.st = "http_error" ->
                      /\ replies' = Append(replies, Reply(i, FALSE, "HTTP status", EmptyObj))
                      /\ UNCHANGED << ENTITY_CACHE, entities, trust_history, audit_log, reconLog >>
                 [] ~Rejected(i) /\ tasks[i].res.st = "ok" ->
                      /\ ENTITY_CACHE' = CacheSet(ENTITY_CACHE, entityId, entity)
                      /\ entities' = insertEntity(entities,
                             ManualTextParams(entity, u, title), now)
                      /\ trust_history' = insertTrustHistory(trust_history, entityId,
                             GetNumOr(entity, "trust_score", 0),
                             GetNumOr(entity, "trust_score_delta", 0), now)
                      /\ audit_log' = insertAuditLog(audit_log, "MANUAL_ANALYSIS", entityId, "",
                             [type |-> "TEXT", url |-> UrlStr(u)], now, rnd)
                      /\ replies' = Append(replies, Reply(i, TRUE, "", entity))
                      /\ Reconciled(i, entity, ManualTextParams(entity, u, title),
                                    IdEntry("manualUrlText", "TEXT", u, title, entityId))
        /\ UNCHANGED << now, windowAlive, dbOpen, seenImageUrls, trustScore, engineLog,
                        published, obsEpoch, obsCount, epochsObserved, imgCalls, chainVars, viewVars, monitorVars, faultVars, advisoryVars, requestVars >>

PasteTexts == {Text("Breaking news", 40)}
PasteTitles == {"", "Alpha"}

\* analyze:manual-text up to its first await
ManualText(cap) ==
    \E text \in PasteTexts, title \in PasteTitles :
        /\ Len(tasks) < cap
        /\ tasks' = Append(tasks, NewTask("manualPaste", "analyze", ManualInput,
                                          OrStr(title, "Manual Text Input"), text,
                                          GeminiPending))
        /\ UNCHANGED << now, windowAlive, dbOpen, seenImageUrls, trustScore, engineLog,
                        ENTITY_CACHE, entities, trust_history, audit_log, published,
                        replies, obsEpoch, obsCount, epochsObserved, imgCalls, reconLog,
                        chainVars, viewVars, monitorVars, faultVars, advisoryVars, requestVars >>

\* analyze:manual-text after `await Promise.all([...])`
CompleteManualPaste ==
    \E i \in DOMAIN tasks, rnd \in Randoms :
        /\ tasks[i].path = "manualPaste"
        /\ tasks[i].stage = "analyze"
        /\ AllSettled(i)
        /\ Finish(i)
        /\ LET u == tasks[i].url
               title == tasks[i].title
               text == tasks[i].text
               analysis == tasks[i].res.body
               entityId == ManualTextEntityId(now, text)
               entity == ManualTextEntity(entityId, title, u, analysis, tasks[i].gemini, now)
           IN  CASE Rejected(i) ->
                      /\ replies' = Append(replies, Reply(i, FALSE, "fetch failed", EmptyObj))
                      /\ UNCHANGED << ENTITY_CACHE, entities, trust_history, audit_log, reconLog >>
                 [] ~Rejected(i) /\ tasks[i].res.st = "http_error" ->
                      /\ replies' = Append(replies, Reply(i, FALSE, "HTTP status", EmptyObj))
                      /\ UNCHANGED << ENTITY_CACHE, entities, trust_history, audit_log, reconLog >>
                 [] ~Rejected(i) /\ tasks[i].res.st = "ok" ->
                      /\ ENTITY_CACHE' = CacheSet(ENTITY_CACHE, entityId, entity)
                      /\ entities' = insertEntity(entities,
                             ManualPasteParams(entity, u, title, text), now)
                      /\ trust_history' = insertTrustHistory(trust_history, entityId,
                             GetNumOr(entity, "trust_score", 0),
                             GetNumOr(entity, "trust_score_delta", 0), now)
                      /\ audit_log' = insertAuditLog(audit_log, "MANUAL_ANALYSIS", entityId, "",
                             [type |-> "TEXT", source |-> "manual_text"], now, rnd)
                      /\ replies' = Append(replies, Reply(i, TRUE, "", entity))
                      /\ Reconciled(i, entity, ManualPasteParams(entity, u, title, text),
                                    IdEntry("manualText", "TEXT", u, title, entityId))
        /\ UNCHANGED << now, windowAlive, dbOpen, seenImageUrls, trustScore, engineLog,
                        published, obsEpoch, obsCount, epochsObserved, imgCalls, chainVars, viewVars, monitorVars, faultVars, advisoryVars, requestVars >>

-----------------------------------------------------------------------------
(* Environment *)

Tick ==
    /\ now < 1 + MaxTime
    /\ now' = now + 1
    /\ UNCHANGED << windowAlive, dbOpen, seenImageUrls, tasks, trustScore, engineLog,
                    ENTITY_CACHE, entities, trust_history, audit_log, published, replies,
                    obsEpoch, obsCount, epochsObserved, imgCalls, reconLog, chainVars, viewVars, monitorVars, faultVars, advisoryVars, requestVars >>

\* the main window is closed or destroyed
DestroyWindow ==
    /\ windowAlive
    /\ windowAlive' = FALSE
    /\ UNCHANGED << now, dbOpen, seenImageUrls, tasks, trustScore, engineLog,
                    ENTITY_CACHE, entities, trust_history, audit_log, published, replies,
                    obsEpoch, obsCount, epochsObserved, imgCalls, reconLog, chainVars, viewVars, monitorVars, faultVars, advisoryVars, requestVars >>

-----------------------------------------------------------------------------
(* The webview preload: text/article monitoring (part_000 1388-1582) *)

MaxLoads == 2           \* documents loaded by the webview per behaviour
MaxSpaTimers == 1       \* pending 1800 ms timeouts of the URL poller
TimerUnitMs == 500      \* one step of the webview's timers, in milliseconds

DebounceMs == 2500
CeilingMs == 8000
MinWords == 150
MaxWords == 500

DebounceTicks == DebounceMs \div TimerUnitMs
CeilingTicks == CeilingMs \div TimerUnitMs
Off == 0 - 1

PageM == Url("https:", "//m/story", "")
MonitorUrls == {PageN, PageM}

\* What a document holds: `prose` whitespace-separated tokens in text nodes
\* outside the skipped subtrees, `singles` of them one character long, and
\* `noise` tokens inside nav/footer/aside/... or denylisted class or id subtrees.
PageText(prose, singles, noise) == [prose |-> prose, singles |-> singles, noise |-> noise]

PageContents ==
    { PageText(149, 0, 200), PageText(150, 1, 0), PageText(150, 0, 0), PageText(600, 0, 0) }

\* the contents a document takes in the specification with navigation
SessionContents == { PageText(149, 0, 200), PageText(150, 0, 0) }

\* _collectText(_pickContainer()): skipped subtrees contribute nothing
_collectText(p) == p.prose

\* text.split(/\s+/).filter(w => w.length > 1).length
WordCount(p) == _collectText(p) - p.singles

QualifiesAboveThreshold(p) == WordCount(p) > MinWords

\* the negation of `words.length < 150`
Qualifies(p) == ~(WordCount(p) < MinWords)

\* the text of the payload: the collected text, or its first 500 counted words
PayloadText(p) ==
    IF WordCount(p) > MaxWords THEN Text("Lorem ipsum", MaxWords)
    ELSE Text("Lorem ipsum", _collectText(p))

\* _extractPayload(): the payload, or nothing (null)
_extractPayload ==
    IF href \in TEXT_URLS_ANALYZED THEN << >>
    ELSE IF ~Qualifies(page) THEN << >>
    ELSE << [ title |-> "Alpha", url |-> href, text |-> PayloadText(page),
              word_count |-> WordCount(page) ] >>

monitorRest ==
    << now, windowAlive, dbOpen, seenImageUrls, trustScore, engineLog,
       ENTITY_CACHE, entities, trust_history, audit_log, published, replies,
       obsEpoch, obsCount, epochsObserved, imgCalls, reconLog, chainVars, viewVars,
       faultVars, advisoryVars, requestVars >>

\* the observer is disconnected and the timers are left to run
DisconnectOnly ==
    /\ _textMutObserver' = FALSE
    /\ UNCHANGED << _textDebounceTimer, _textCeilingTimer >>

\* _stopTextObserver(): disconnect, clearTimeout of both timers
_stopTextObserver ==
    /\ _textMutObserver' = FALSE
    /\ _textDebounceTimer' = Off
    /\ _textCeilingTimer' = Off

\* _tryExtractAndSend(), run by the timer `timer`, which is spent by running
_tryExtractAndSend(timer) ==
    /\ extracted' = ~extracted
    /\ IF _extractPayload = << >>
       THEN /\ _textDebounceTimer' = IF timer = "debounce" THEN Off ELSE _textDebounceTimer
            /\ _textCeilingTimer' = IF timer = "ceiling" THEN Off ELSE _textCeilingTimer
            /\ UNCHANGED << TEXT_URLS_ANALYZED, _textMutObserver, inFlight, sentLog >>
       ELSE LET payload == _extractPayload[1]
            IN  /\ TEXT_URLS_ANALYZED' = TEXT_URLS_ANALYZED \cup {payload.url}
                /\ _stopTextObserver
                /\ inFlight' = Append(inFlight, payload)
                /\ sentLog' = sentLog \cup {[load |-> loads, url |-> payload.url]}
    /\ UNCHANGED << href, readyState, page, _currentPageUrl, loadTimer, spaTimers, loads,
                    tasks, monitorRest >>

\* setTimeout(_tryExtractAndSend, 2500) expires
DebounceFires == _textDebounceTimer = 0 /\ _tryExtractAndSend("debounce")

\* setTimeout(_tryExtractAndSend, 8000) expires
CeilingFires == _textCeilingTimer = 0 /\ _tryExtractAndSend("ceiling")

\* time passes in the webview; a timer that has expired runs first
MonitorTick ==
    /\ _textDebounceTimer # 0
    /\ _textCeilingTimer # 0
    /\ _textDebounceTimer > 0 \/ _textCeilingTimer > 0
    /\ _textDebounceTimer' = IF _textDebounceTimer > 0 THEN _textDebounceTimer - 1 ELSE Off
    /\ _textCeilingTimer' = IF _textCeilingTimer > 0 THEN _textCeilingTimer - 1 ELSE Off
    /\ UNCHANGED << href, readyState, page, _currentPageUrl, TEXT_URLS_ANALYZED,
                    _textMutObserver, loadTimer, spaTimers, inFlight, loads, sentLog,
                    extracted, tasks, monitorRest >>

\* startTextMonitorForPage()
startTextMonitorForPage ==
    IF href \in TEXT_URLS_ANALYZED
    THEN UNCHANGED << _currentPageUrl, _textMutObserver, _textDebounceTimer,
                      _textCeilingTimer >>
    ELSE /\ _currentPageUrl' = href
         /\ _textCeilingTimer' = CeilingTicks
         /\ _textDebounceTimer' = DebounceTicks
         /\ _textMutObserver' = TRUE

\* the webview loads a document (a link, a reload, back or forward): the preload
\* script runs again in a new context
Navigate(contents) ==
    \E u \in MonitorUrls, p \in contents :
        /\ loads < MaxLoads
        /\ loads' = loads + 1
        /\ href' = u
        /\ page' = p
        /\ readyState' = "loading"
        /\ _currentPageUrl' = u
        /\ TEXT_URLS_ANALYZED' = {}
        /\ _textMutObserver' = FALSE
        /\ _textDebounceTimer' = Off
        /\ _textCeilingTimer' = Off
        /\ loadTimer' = FALSE
        /\ spaTimers' = 0
        /\ UNCHANGED << inFlight, sentLog, extracted, tasks, monitorRest >>

\* document.addEventListener('DOMContentLoaded', startTextMonitorForPage, { once: true })
DomContentLoaded ==
    /\ readyState = "loading"
    /\ readyState' = "interactive"
    /\ startTextMonitorForPage
    /\ UNCHANGED << href, page, TEXT_URLS_ANALYZED, loadTimer, spaTimers, inFlight, loads,
                    sentLog, extracted, tasks, monitorRest >>

\* window.addEventListener('load', () => setTimeout(startTextMonitorForPage, 800))
WindowLoad ==
    /\ readyState = "interactive"
    /\ readyState' = "complete"
    /\ loadTimer' = TRUE
    /\ UNCHANGED << href, page, _currentPageUrl, TEXT_URLS_ANALYZED, _textMutObserver,
                    _textDebounceTimer, _textCeilingTimer, spaTimers, inFlight, loads,
                    sentLog, extracted, tasks, monitorRest >>

\* the 800 ms timeout of the load listener expires
LoadTimerFires ==
    /\ loadTimer
    /\ loadTimer' = FALSE
    /\ startTextMonitorForPage
    /\ UNCHANGED << href, readyState, page, TEXT_URLS_ANALYZED, spaTimers, inFlight, loads,
                    sentLog, extracted, tasks, monitorRest >>

\* history.pushState / replaceState: the URL changes, the preload context stays
SpaNavigate ==
    \E u \in MonitorUrls \ {href} :
        /\ readyState # "loading"
        /\ href' = u
        /\ UNCHANGED << readyState, page, _currentPageUrl, TEXT_URLS_ANALYZED,
                        _textMutObserver, _textDebounceTimer, _textCeilingTimer, loadTimer,
                        spaTimers, inFlight, loads, sentLog, extracted, tasks, monitorRest >>

\* one run of the setInterval(..., 1000) URL poller that finds a new URL
UrlPoll ==
    /\ href # _currentPageUrl
    /\ spaTimers < MaxSpaTimers
    /\ _currentPageUrl' = href
    /\ spaTimers' = spaTimers + 1
    /\ UNCHANGED << href, readyState, page, TEXT_URLS_ANALYZED, _textMutObserver,
                    _textDebounceTimer, _textCeilingTimer, loadTimer, inFlight, loads,
                    sentLog, extracted, tasks, monitorRest >>

\* a 1800 ms timeout of the URL poller expires
SpaTimerFires ==
    /\ spaTimers > 0
    /\ spaTimers' = spaTimers - 1
    /\ startTextMonitorForPage
    /\ UNCHANGED << href, readyState, page, TEXT_URLS_ANALYZED, loadTimer, inFlight, loads,
                    sentLog, extracted, tasks, monitorRest >>

\* the page changes its DOM; a connected MutationObserver runs its callback
Mutate(contents) ==
    \E p \in contents :
        /\ page' = p
        /\ IF ~_textMutObserver
           THEN UNCHANGED << _textMutObserver, _textDebounceTimer, _textCeilingTimer >>
           ELSE IF href # _currentPageUrl
           THEN _stopTextObserver
           ELSE /\ _textDebounceTimer' = DebounceTicks
                /\ UNCHANGED << _textMutObserver, _textCeilingTimer >>
        /\ UNCHANGED << href, readyState, _currentPageUrl, TEXT_URLS_ANALYZED, loadTimer,
                        spaTimers, inFlight, loads, sentLog, extracted, tasks, monitorRest >>

\* the payload reaches ipcMain.on('text-monitor:article') -> postTextToBackend,
\* which posts it to the text analyzer
DeliverTextCapture ==
    /\ inFlight # << >>
    /\ inFlight' = Tail(inFlight)
    /\ LET payload == Head(inFlight)
       IN  IF isValidHttpUrl(payload.url)
           THEN tasks' = Append(tasks, NewTask("text", "analyze", payload.url,
                                               payload.title, payload.text, GeminiPending))
           ELSE UNCHANGED tasks
    /\ UNCHANGED << href, readyState, page, _currentPageUrl, TEXT_URLS_ANALYZED,
                    _textMutObserver, _textDebounceTimer, _textCeilingTimer, loadTimer,
                    spaTimers, loads, sentLog, extracted, monitorRest >>

-----------------------------------------------------------------------------
(* Chat messages and what callOpenRouterAI makes of them *)

\* { role, content }; a content is the sequence of the text pieces it is made of
Msg(role, content) == [role |-> role, content |-> content]

SystemPrompt == << "system prompt" >>

RECURSIVE JoinContents(_)
\* msgs.map(m => m.content).join('\n\n')
JoinContents(msgs) ==
    IF msgs = << >> THEN << >>
    ELSE IF Len(msgs) = 1 THEN msgs[1].content
    ELSE msgs[1].content \o << "\n\n" >> \o JoinContents(Tail(msgs))

SentUnchanged(model, messages) == messages

\* the `msgs` of one loop iteration
PrepareMessages(model, messages) ==
    IF ~model.noSystem THEN messages
    ELSE LET IsSystem(m) == m.role = "system"
             NotSystem(m) == m.role # "system"
             sys == JoinContents(SelectSeq(messages, IsSystem))
             rest == SelectSeq(messages, NotSystem)
         IN  IF sys # << >> /\ Len(rest) > 0 /\ rest[1].role = "user"
             THEN << Msg("user", << "[Instructions: " >> \o sys \o << "]\n\n" >>
                                   \o rest[1].content) >> \o Tail(rest)
             ELSE IF sys # << >> THEN << Msg("user", sys) >> \o rest
             ELSE rest

\* no advisory handler has run; callOpenRouterAI is called with a system and a user message
NoQuery == [op |-> "none", args |-> EmptyObj, records |-> << >>, total |-> 0]

NoExport == [st |-> "idle", entity_id |-> "", result |-> EmptyObj, n |-> 0]

\* the export button and its dropdown as the entity view renders them: enabled,
\* idle label, dropdown closed, no flash timeout pending
IdleLabel == "Export Evidence"
IdleButton ==
    [disabled |-> FALSE, label |-> IdleLabel, success |-> FALSE, timers |-> 0, open |-> FALSE]

NoAdvisory ==
    [ op |-> "none", st |-> "idle", entity_id |-> "", query |-> << >>, title |-> "",
      messages |-> << Msg("system", SystemPrompt), Msg("user", << "question" >>) >>,
      reply |-> "none", n |-> 0 ]

-----------------------------------------------------------------------------

Init ==
    /\ now = 1
    /\ windowAlive = TRUE
    /\ dbOpen \in BOOLEAN
    /\ seenImageUrls = {}
    /\ tasks = << >>
    /\ trustScore = InitialTrustScore
    /\ engineLog = << >>
    /\ ENTITY_CACHE = EmptyObj
    /\ entities = {}
    /\ trust_history = << >>
    /\ audit_log = {}
    /\ published = << >>
    /\ replies = << >>
    /\ obsEpoch = {}
    /\ obsCount = [u \in ImageUrls |-> 0]
    /\ epochsObserved = [u \in ImageUrls |-> 0]
    /\ imgCalls = [u \in ImageUrls |-> 0]
    /\ idLog = {}
    /\ merged = EmptyObj
    /\ lastUpsert = EmptyObj
    /\ eventOf = EmptyObj
    /\ restarts = 0
    /\ lookups = << >>
    /\ href = PageN
    /\ readyState = "loading"
    /\ page = PageText(149, 0, 200)
    /\ _currentPageUrl = PageN
    /\ TEXT_URLS_ANALYZED = {}
    /\ _textMutObserver = FALSE
    /\ _textDebounceTimer = Off
    /\ _textCeilingTimer = Off
    /\ loadTimer = FALSE
    /\ spaTimers = 0
    /\ inFlight = << >>
    /\ loads = 1
    /\ sentLog = {}
    /\ extracted = FALSE
    /\ writeFails = {}
    /\ chainIdx = 1
    /\ chainCalls = << >>
    /\ chainOutcomes = << >>
    /\ chainResult = [st |-> "pending", text |-> ""]
    /\ chainSent = << >>
    /\ advisory = NoAdvisory
    /\ legal_sessions = << >>
    /\ queried = NoQuery
    /\ exportTask = NoExport
    /\ exportBtn = IdleButton

Next ==
    \/ IpcImageUrl(MaxCaptures, {ImgA})
    \/ BackendImageOk(ImageVerdicts)
    \/ BackendFail
    \/ CompleteImage
    \/ IpcTextArticle(MaxCaptures)
    \/ BackendTextOk(TextVerdicts)
    \/ GeminiSettle(GeminiResponses)
    \/ CompleteText
    \/ ManualUrl(MaxCaptures)
    \/ ManualPageFetched
    \/ CompleteManualImage
    \/ CompleteManualText
    \/ ManualText(MaxCaptures)
    \/ CompleteManualPaste
    \/ Tick
    \/ DestroyWindow

Spec == Init /\ [][Next]_vars

(* Image capture de-duplication alone: both entry points and navigation *)
NextDedup ==
    \/ InterceptImage(MaxImageCaptures, ImageUrls)
    \/ IpcImageUrl(MaxImageCaptures, ImageUrls)
    \/ Navigated
    \/ BackendImageOk(ImageVerdicts)
    \/ BackendFail
    \/ CompleteImage
    \/ Tick
    \/ DestroyWindow

SpecDedup == Init /\ [][NextDedup]_vars

-----------------------------------------------------------------------------
(* callOpenRouterAI: the ordered fallback chain over FREE_MODELS *)

FREE_MODELS ==
    << [id |-> "liquid/lfm-2.5-1.2b-instruct:free", noSystem |-> FALSE],
       [id |-> "google/gemma-3-4b-it:free", noSystem |-> TRUE],
       [id |-> "google/gemma-3-12b-it:free", noSystem |-> TRUE],
       [id |-> "meta-llama/llama-3.2-3b-instruct:free", noSystem |-> FALSE],
       [id |-> "meta-llama/llama-3.3-70b-instruct:free", noSystem |-> FALSE] >>

\* data.choices?.[0]?.message?.content?.trim() || '' on the contents the model uses
Trim(text) ==
    CASE text \in {"", " ", Undefined} -> ""
      [] text = " Draft " -> "Draft"
      [] OTHER -> text

\* What one provider may do: the fetch or res.json() throws (network error, the
\* 40 s timeout, a body that is not JSON), or it answers with a status, maybe an
\* error payload, and a message content.
ProviderAnswer(threw, ok, error, content) ==
    [threw |-> threw, ok |-> ok, error |-> error, content |-> content]

ProviderAnswers ==
    {ProviderAnswer(TRUE, FALSE, FALSE, "")} \cup
    {ProviderAnswer(FALSE, ok, error, content) :
        ok \in BOOLEAN, error \in BOOLEAN, content \in {"", " ", " Draft ", "Other"}}

\* the kind of an answer, as the loop tells them apart
AnswerKind(a) ==
    IF a.threw THEN "threw"
    ELSE IF ~a.ok THEN "non2xx"
    ELSE IF a.error THEN "error_payload"
    ELSE IF Trim(a.content) = "" THEN "empty"
    ELSE "text"

AcceptsAnyBody(a) == ~a.threw /\ a.ok /\ ~a.error

\* the loop body reaches `return text`
ProviderAccepted(a) ==
    /\ ~a.threw
    /\ ~(~a.ok \/ a.error)
    /\ Trim(a.content) # ""

\* one iteration of `for (const model of FREE_MODELS)`
ChainStep(answers) ==
    \E a \in answers :
        /\ chainResult.st = "pending"
        /\ chainIdx <= Len(FREE_MODELS)
        /\ chainCalls' = Append(chainCalls, FREE_MODELS[chainIdx].id)
        /\ chainOutcomes' = Append(chainOutcomes,
                                    [kind |-> AnswerKind(a), content |-> a.content])
        /\ chainSent' = Append(chainSent,
                               PrepareMessages(FREE_MODELS[chainIdx], advisory.messages))
        /\ IF ProviderAccepted(a)
           THEN /\ chainResult' = [st |-> "returned", text |-> Trim(a.content)]
                /\ UNCHANGED chainIdx
           ELSE /\ chainIdx' = chainIdx + 1
                /\ UNCHANGED chainResult
        /\ UNCHANGED << pipelineVars, monitorVars, faultVars, advisoryVars, requestVars >>

\* `throw lastError || new Error('All free models exhausted.')`
ChainExhausted ==
    /\ chainResult.st = "pending"
    /\ chainIdx > Len(FREE_MODELS)
    /\ chainResult' = [st |-> "thrown", text |-> ""]
    /\ UNCHANGED << chainIdx, chainCalls, chainOutcomes, chainSent >>
    /\ UNCHANGED << pipelineVars, monitorVars, faultVars, advisoryVars, requestVars >>

NextChain ==
    \/ ChainStep(ProviderAnswers)
    \/ ChainExhausted

SpecChain == Init /\ [][NextChain]_vars

-----------------------------------------------------------------------------
(* The advisory handlers: legal-chat:query, legal:generate-complaint, ai:chat *)

MaxAdvisoryCalls == 2   \* advisory handler invocations per behaviour

\* INSERT INTO legal_sessions ...: id is the next rowid
insertLegalSession(rows, entityId, userQuery, aiResponse, sessionType, t) ==
    IF ~_ready \/ Fails("legal_sessions") THEN rows
    ELSE Append(rows, [ id |-> Len(rows) + 1, entity_id |-> entityId,
                        user_query |-> userQuery, ai_response |-> aiResponse,
                        session_type |-> sessionType, timestamp |-> IsoSeconds(t) ])

AdvisoryEntityIds == {"", "e1"}

\* user_query: empty, blanks only, a question, a question longer than 1000 characters
UserQueries == { << >>, << " " >>, << "question" >>, << "question", "past 1000" >> }

\* user_query.trim()
TrimQuery(q) == IF q = << " " >> THEN << >> ELSE q

\* .substring(0, 1000)
First1000(q) == IF Len(q) > 1 THEN << q[1] >> ELSE q

\* the `messages` of ai:chat as the renderer passes them
ChatHistories ==
    { << >>,
      << Msg("user", << "hi" >>) >>,
      << Msg("assistant", << "hello" >>), Msg("user", << "hi" >>) >>,
      << Msg("user", << "hi" >>), Msg("system", << "extra" >>) >> }

\* what the providers answer in the advisory specification
AdvisoryAnswers ==
    { ProviderAnswer(TRUE, FALSE, FALSE, ""),
      ProviderAnswer(FALSE, FALSE, FALSE, ""),
      ProviderAnswer(FALSE, TRUE, FALSE, " Draft ") }

\* the handler calls callOpenRouterAI(msgs) and awaits it; without an API key the
\* call throws at once
StartAdvisory(op, entityId, query, title, msgs) ==
    \E key \in BOOLEAN :
        /\ advisory.st # "awaiting"
        /\ advisory.n < MaxAdvisoryCalls
        /\ advisory' = [ op |-> op, st |-> "awaiting", entity_id |-> entityId,
                         query |-> query, title |-> title, messages |-> msgs,
                         reply |-> "none", n |-> advisory.n + 1 ]
        /\ chainIdx' = 1
        /\ chainCalls' = << >>
        /\ chainOutcomes' = << >>
        /\ chainSent' = << >>
        /\ chainResult' = [st |-> IF key THEN "pending" ELSE "thrown", text |-> ""]
        /\ UNCHANGED << pipelineVars, monitorVars, faultVars, legal_sessions, requestVars >>

\* ipcMain.handle('legal-chat:query') up to its await
LegalChatQuery(entityIds, queries) ==
    \E e \in entityIds, q \in queries :
        IF TrimQuery(q) = << >>
        THEN /\ advisory.st # "awaiting"
             /\ advisory.n < MaxAdvisoryCalls
             /\ advisory' = [ op |-> "legal-chat:query", st |-> "done", entity_id |-> e,
                              query |-> q, title |-> "", messages |-> advisory.messages,
                              reply |-> "error", n |-> advisory.n + 1 ]
             /\ UNCHANGED << pipelineVars, monitorVars, faultVars, legal_sessions,
                             chainVars, requestVars >>
        ELSE StartAdvisory("legal-chat:query", e, q, "",
                           << Msg("system", SystemPrompt),
                              Msg("user", First1000(TrimQuery(q))) >>)

\* ipcMain.handle('legal:generate-complaint') up to its await
GenerateComplaint ==
    \E e \in AdvisoryEntityIds, title \in {"", "Alpha"} :
        StartAdvisory("legal:generate-complaint", e, << >>, title,
                      << Msg("system", SystemPrompt),
                         Msg("user", << "Generate a complaint", title >>) >>)

\* ipcMain.handle('ai:chat') up to its await
AiChat ==
    \E messages \in ChatHistories, e \in AdvisoryEntityIds :
        StartAdvisory("ai:chat", e, << >>, "",
                      << Msg("system", SystemPrompt \o
                                       (IF e = "" THEN << >> ELSE << "context", e >>)) >>
                      \o messages)

AdvisoryChainStep == advisory.st = "awaiting" /\ ChainStep(AdvisoryAnswers)

AdvisoryChainExhausted == advisory.st = "awaiting" /\ ChainExhausted

PersistedEitherWay(result) == TRUE

\* the statements after `await callOpenRouterAI(...)` run: it did not throw
Persisted(result) == result.st = "returned"

\* the handler after its await: the rest of the try block, or the catch block
AdvisoryComplete ==
    \E rnd \in Randoms :
        /\ advisory.st = "awaiting"
        /\ chainResult.st # "pending"
        /\ advisory' = [advisory EXCEPT !.st = "done",
                           !.reply = IF \/ chainResult.st = "thrown"
                                        \/ \E table \in AllDbTables : Escapes(table)
                                     THEN "error" ELSE "result"]
        /\ IF ~Persisted(chainResult)
           THEN UNCHANGED << legal_sessions, audit_log >>
           ELSE CASE advisory.op = "legal-chat:query" ->
                       /\ legal_sessions' = insertLegalSession(legal_sessions,
                              advisory.entity_id, advisory.query, chainResult.text,
                              "LEGAL_CHAT", now)
                       /\ audit_log' = insertAuditLog(audit_log, "LEGAL_CHAT_USED",
                              advisory.entity_id, "",
                              [query_preview |-> advisory.query], now, rnd)
                  [] advisory.op = "legal:generate-complaint" ->
                       /\ legal_sessions' = insertLegalSession(legal_sessions,
                              advisory.entity_id,
                              << "Complaint: ", IF advisory.title = "" THEN "entity"
                                               ELSE advisory.title >>,
                              chainResult.text, "COMPLAINT_DRAFT", now)
                       /\ audit_log' = insertAuditLog(audit_log, "LEGAL_CHAT_USED",
                              advisory.entity_id, "", [type |-> "complaint_draft"],
                              now, rnd)
                  [] advisory.op = "ai:chat" ->
                       /\ audit_log' = insertAuditLog(audit_log, "AI_CHAT_USED",
                              advisory.entity_id, "",
                              [message_count |-> Len(advisory.messages) - 1], now, rnd)
                       /\ UNCHANGED legal_sessions
        /\ UNCHANGED << now, windowAlive, dbOpen, seenImageUrls, tasks, trustScore,
                        engineLog, ENTITY_CACHE, entities, trust_history, published,
                        replies, obsEpoch, obsCount, epochsObserved, imgCalls, reconLog,
                        chainVars, viewVars, monitorVars, faultVars, requestVars >>

NextAdvisory ==
    \/ LegalChatQuery(AdvisoryEntityIds, UserQueries)
    \/ GenerateComplaint
    \/ AiChat
    \/ AdvisoryChainStep
    \/ AdvisoryChainExhausted
    \/ AdvisoryComplete
    \/ Tick

SpecAdvisory == Init /\ [][NextAdvisory]_vars


-----------------------------------------------------------------------------
(* The trust engine behind the text analyzer, driven by passive text captures *)

MaxEngineCaptures == 3  \* captures per behaviour of SpecEngine

EngineProbs == {30, 80, 90}

EngineVerdicts ==
    { [ai_generated_probability |-> p, misinformation_risk |-> "LOW",
       credibility_score |-> 50, explanation |-> << >>] : p \in EngineProbs }

NextEngine ==
    \/ IpcTextArticle(MaxEngineCaptures)
    \/ BackendTextOk(EngineVerdicts)
    \/ GeminiSettle(GeminiFailures)
    \/ CompleteText

SpecEngine == Init /\ [][NextEngine]_vars

-----------------------------------------------------------------------------
(* Properties *)

ValidImageUrls == {u \in ImageUrls : isValidHttpUrl(u)}

\* C1: an image URL observed any number of times between two navigation events,
\* through the request interceptor, the 'image-monitor:url' channel or both,
\* has triggered exactly one analyzer request per navigation epoch in which it
\* was observed: one for the first epoch, exactly one more after each
\* 'webview:navigated' that is followed by a new observation.
C1_OneCallPerEpoch ==
    \A u \in ValidImageUrls :
        /\ imgCalls[u] = epochsObserved[u]
        /\ imgCalls[u] = Cardinality({i \in DOMAIN tasks :
                                        tasks[i].path = "image" /\ tasks[i].url = u})
        /\ (u \in obsEpoch) = (u \in seenImageUrls)

C1_Witness ==
    \E u \in ValidImageUrls :
        /\ epochsObserved[u] = 2
        /\ obsCount[u] >= 2
        /\ imgCalls[u] = 2

\* C2: any two reconciliations of the same kind, the same source locator and
\* (for text) the same title carry the same entity_id, whichever ingestion path
\* (passive image, passive text, manual URL, manual text paste) made them.
C2_SameCaptureSameId ==
    \A a \in idLog, b \in idLog :
        ( /\ a.kind = b.kind
          /\ a.url = b.url
          /\ (a.kind = "TEXT" => a.title = b.title) )
        => a.id = b.id

\* C3: the entities relation holds exactly one row for every entity_id that was
\* upserted and none for any other id, and that row carries the risk_level,
\* the analysis payload and the detected_at of the most recent upsert of the id.
C3_UpsertKeepsLatest ==
    dbOpen =>
        /\ \A r \in entities : Has(lastUpsert, r.entity_id)
        /\ \A id \in DOMAIN lastUpsert :
              LET rows == {r \in entities : r.entity_id = id}
                  last == lastUpsert[id]
              IN  /\ Cardinality(rows) = 1
                  /\ \A r \in rows :
                        /\ r.risk_level = ToUpper(last.p.risk_level)
                        /\ r.analysis_json = last.p.analysis
                        /\ r.detected_at =
                              IF Has(last.p, "detected_at")
                              THEN IsoSeconds(last.p.detected_at) ELSE IsoSeconds(last.t)

C3_Witness ==
    /\ dbOpen
    /\ \E id \in DOMAIN lastUpsert :
          /\ lastUpsert[id].n >= 2
          /\ \E r \in entities : r.entity_id = id

InRange(x) == x \in 0..100

\* C4: the running trust score, and every trust_score stamped on a cached
\* entity, recorded in a trust_history row, published to the renderer or
\* returned by a manual analysis, lies in [0, 100].
C4_ScoreInRange ==
    /\ InRange(trustScore)
    /\ \A n \in DOMAIN engineLog : InRange(engineLog[n].score)
    /\ \A id \in DOMAIN ENTITY_CACHE : InRange(ENTITY_CACHE[id].trust_score)
    /\ \A n \in DOMAIN trust_history : InRange(trust_history[n].trust_score)
    /\ \A n \in DOMAIN published : InRange(published[n].payload.trust_score)
    /\ \A n \in DOMAIN replies :
          replies[n].success => InRange(replies[n].entity.trust_score)

\* the clamp at 0 has acted: the deduction was larger than what was left
C4_Witness ==
    \E n \in DOMAIN engineLog, m \in DOMAIN trust_history :
        /\ n > 1
        /\ engineLog[n - 1].score + engineLog[n].delta < 0
        /\ engineLog[n].score = 0
        /\ trust_history[m].trust_score = 0
        /\ trust_history[m].delta = engineLog[n].delta

ScoreBefore(n) == IF n = 1 THEN InitialTrustScore ELSE engineLog[n - 1].score

EngineProbSeq == [n \in DOMAIN engineLog |-> engineLog[n].prob]
EngineScoreSeq == [n \in DOMAIN engineLog |-> engineLog[n].score]
EngineDeltaSeq == [n \in DOMAIN engineLog |-> engineLog[n].delta]

\* C5: starting from 100, every update moves the session score to
\* clamp(old + delta, 0, 100) with delta = -(probability x 100), clamped once
\* after the addition; probabilities 0.8, 0.3, 0.9 give scores 20, 0, 0 and
\* deltas -80, -30, -90; the scores are a function of the probabilities alone.
C5_EngineRule ==
    /\ \A n \in DOMAIN engineLog :
          /\ engineLog[n].delta = 0 - engineLog[n].prob
          /\ engineLog[n].score =
                Max(0, Min(100, ScoreBefore(n) + engineLog[n].delta))
    /\ trustScore = (IF engineLog = << >> THEN 100
                     ELSE engineLog[Len(engineLog)].score)
    /\ EngineProbSeq = << 80, 30, 90 >> =>
          /\ EngineScoreSeq = << 20, 0, 0 >>
          /\ EngineDeltaSeq = << -80, -30, -90 >>
    /\ EngineProbSeq = << 30, 30, 30 >> => EngineScoreSeq = << 70, 40, 10 >>

C5_Witness ==
    /\ EngineProbSeq = << 80, 30, 90 >>
    /\ EngineScoreSeq = << 20, 0, 0 >>
    /\ \E n \in DOMAIN published :
          /\ published[n].payload.trust_score = 0
          /\ published[n].payload.trust_score_delta = -90

Enriched(i) ==
    /\ i \in DOMAIN merged
    /\ tasks[i].path \in TextPaths
    /\ tasks[i].gemini.st = "ok"

\* C6: when enrichment is present, the trust_score_delta stamped on a TEXT
\* entity, recorded in trust history and published equals
\* -(enrichment ai_generated_probability x 100).
C6_DeltaFromMergedProbability ==
    \A i \in DOMAIN tasks :
        Enriched(i) =>
            merged[i].trust_score_delta =
                0 - tasks[i].gemini.val.ai_generated_probability

HistoryBefore(n) ==
    IF n = 1 THEN InitialTrustScore ELSE trust_history[n - 1].trust_score

\* C7: when every update the engine applied has been recorded, the
\* TrustHistoryPoints in append order satisfy
\* score_n = clamp(score_{n-1} + delta_n, 0, 100) with score_0 = 100.
C7_HistoryIsChain ==
    (dbOpen /\ Len(trust_history) = Len(engineLog)) =>
        \A n \in DOMAIN trust_history :
            trust_history[n].trust_score =
                Clamp(HistoryBefore(n) + trust_history[n].delta, 0, 100)

EnrichmentFailed(i) ==
    /\ tasks[i].path \in TextPaths
    /\ tasks[i].stage = "done"
    /\ tasks[i].res.st = "ok"
    /\ tasks[i].gemini.st \in {"null", "throws"}

PublishedFor(i, id) ==
    IF tasks[i].path = "text"
    THEN \E n \in DOMAIN published :
            /\ published[n].channel = "text-monitor:analysis"
            /\ published[n].payload.entity_id = id
            /\ published[n].payload.ai_summary = Null
    ELSE \E n \in DOMAIN replies :
            /\ replies[n].task = i
            /\ replies[n].success
            /\ replies[n].entity = merged[i]

\* C8: when the enrichment provider fails (non-2xx such as 429, network error,
\* timeout, unparseable answer), callGeminiAnalysis returns null and raises
\* nothing, and the primary result alone gives an entity with the primary's
\* scores and null summary and topic and no key claims, which is cached,
\* persisted (when the database is open) and published.
C8_PrimaryAloneSurvives ==
    \A i \in DOMAIN tasks :
        /\ tasks[i].gemini.st # "throws"
        /\ (EnrichmentFailed(i) /\ (tasks[i].path = "text" => windowAlive)) =>
              /\ i \in DOMAIN merged
              /\ LET e == merged[i]
                     primary == tasks[i].res.body
                 IN  /\ e.entity_type = "TEXT"
                     /\ e.ai_generated_probability = primary.ai_generated_probability
                     /\ e.misinformation_risk = primary.misinformation_risk
                     /\ e.credibility_score = primary.credibility_score
                     /\ e.ai_summary = Null
                     /\ e.topic = Null
                     /\ e.key_claims = << >>
                     /\ Has(ENTITY_CACHE, e.entity_id)
                     /\ dbOpen => \E r \in entities : r.entity_id = e.entity_id
                     /\ PublishedFor(i, e.entity_id)

C8_Witness ==
    \E i \in DOMAIN tasks :
        /\ EnrichmentFailed(i)
        /\ tasks[i].path = "text"
        /\ i \in DOMAIN merged
        /\ dbOpen
        /\ \E r \in entities : r.entity_id = merged[i].entity_id
        /\ PublishedFor(i, merged[i].entity_id)

FailureKinds == {"threw", "non2xx", "error_payload", "empty"}

\* C9: the chain fetches the models of FREE_MODELS strictly in list order; every
\* model before the last one fetched failed (non-2xx, error payload, empty
\* output, timeout or thrown exception); it returns exactly when a model
\* yields non-empty text, returns that text, and fetches no model after it; it
\* throws only after every model of the list failed.
C9_ChainInOrder ==
    /\ Len(chainOutcomes) = Len(chainCalls)
    /\ Len(chainCalls) <= Len(FREE_MODELS)
    /\ \A k \in DOMAIN chainCalls : chainCalls[k] = FREE_MODELS[k].id
    /\ \A k \in DOMAIN chainOutcomes :
          k < Len(chainOutcomes) => chainOutcomes[k].kind \in FailureKinds
    /\ chainResult.st = "returned" <=>
          (chainOutcomes # << >> /\ chainOutcomes[Len(chainOutcomes)].kind = "text")
    /\ chainResult.st = "returned" =>
          /\ chainResult.text # ""
          /\ chainResult.text = Trim(chainOutcomes[Len(chainOutcomes)].content)
    /\ chainResult.st = "thrown" =>
          /\ Len(chainCalls) = Len(FREE_MODELS)
          /\ \A k \in DOMAIN chainOutcomes : chainOutcomes[k].kind \in FailureKinds

\* the third model answers after a thrown exception and an error payload
C9_Witness ==
    /\ chainResult.st = "returned"
    /\ Len(chainCalls) = 3
    /\ chainOutcomes[1].kind = "threw"
    /\ chainOutcomes[2].kind = "error_payload"
    /\ chainResult.text = "Draft"

\* C10: when an enrichment result is present, the merged entity's
\* ai_generated_probability, misinformation_risk, credibility_score and findings
\* equal the enrichment's, its summary, topic and key claims are the
\* enrichment's, and the primary-only fields (text, word count, url, title) of
\* the capture are still on it.
C10_MergePrecedence ==
    \A i \in DOMAIN tasks :
        Enriched(i) =>
            LET e == merged[i]
                g == tasks[i].gemini.val
            IN  /\ e.ai_generated_probability = g.ai_generated_probability
                /\ e.misinformation_risk = g.misinformation_risk
                /\ e.credibility_score = g.credibility_score
                /\ e.explanation = g.forensic_explanation
                /\ e.ai_summary = g.ai_summary
                /\ e.topic = g.topic
                /\ e.key_claims = g.key_claims
                /\ GetStr(e, "url") = UrlStr(tasks[i].url)
                /\ tasks[i].title \in {GetStr(e, "title"), GetStr(e, "content_title")}
                /\ Has(e, "text") /\ e.text = tasks[i].text
                /\ Has(e, "word_count") /\ e.word_count = tasks[i].text.words

Unenriched(i) ==
    /\ i \in DOMAIN merged
    /\ tasks[i].path \in TextPaths
    /\ tasks[i].gemini.st = "null"

ExplicitlyEmpty(o) ==
    /\ Has(o, "ai_summary") /\ o.ai_summary = Null
    /\ Has(o, "topic") /\ o.topic = Null
    /\ Has(o, "key_claims") /\ o.key_claims = << >>

\* C11: when enrichment is absent, every field the primary analyzer answered is
\* on the merged entity with the primary's value, and summary, topic and key
\* claims are present as null, null and the empty list, in the cached entity
\* and in the event published for the capture.
C11_PrimaryPassesThrough ==
    \A i \in DOMAIN tasks :
        Unenriched(i) =>
            LET e == merged[i]
                primary == tasks[i].res.body
            IN  /\ \A k \in DOMAIN primary : Has(e, k) /\ e[k] = primary[k]
                /\ ExplicitlyEmpty(e)
                /\ tasks[i].path = "text" =>
                      /\ Has(eventOf, i)
                      /\ LET ev == published[eventOf[i]].payload
                         IN  /\ ev.entity_id = e.entity_id
                             /\ ev.ai_generated_probability = primary.ai_generated_probability
                             /\ ev.misinformation_risk = primary.misinformation_risk
                             /\ ev.credibility_score = primary.credibility_score
                             /\ ev.explanation = primary.explanation
                             /\ ev.trust_score = primary.trust_score
                             /\ ev.trust_score_delta = primary.trust_score_delta
                             /\ ExplicitlyEmpty(ev)

C11_Witness ==
    \E i \in DOMAIN tasks :
        /\ Unenriched(i)
        /\ tasks[i].path = "text"
        /\ Has(eventOf, i)
        /\ tasks[i].res.body.explanation # << >>
        /\ ENTITY_CACHE[merged[i].entity_id] = merged[i]

PrimaryFailed(i) ==
    /\ tasks[i].path \in {"image", "text"}
    /\ tasks[i].stage = "done"
    /\ tasks[i].res.st \in {"http_error", "rejected"}

\* C12: when the primary analyzer call of a passive capture ends with a non-2xx
\* response or an exception, the capture is dropped with exactly one
\* ANALYSIS_FAILED audit event (the database being open), and no entity is
\* cached, persisted or published for it.
C12_FailureAuditedOnce ==
    dbOpen =>
        /\ Cardinality({r \in audit_log : r.event_type = "ANALYSIS_FAILED"}) =
              Cardinality({i \in DOMAIN tasks : PrimaryFailed(i)})
        /\ \A i \in DOMAIN tasks :
              PrimaryFailed(i) => ~Has(merged, i) /\ ~Has(eventOf, i)

-----------------------------------------------------------------------------
(* Restart and entity:details: the cache rebuilt from the entities table *)

MaxStoreCaptures == 1   \* pipeline invocations per behaviour of SpecStore
MaxRestarts == 1        \* restarts per behaviour
MaxLookups == 2         \* entity:details calls per behaviour

\* fields of the model's objects that hold strings and so may hold undefined
StringFields ==
    {"entity_id", "entity_type", "image_url", "url", "title", "content_title",
     "source_url", "risk_level", "misinformation_risk", "session_id",
     "ai_summary", "topic"}

\* JSON.parse(JSON.stringify(o)): a property whose value is undefined is dropped
JsonRoundTrip(o) ==
    [k \in {x \in DOMAIN o : ~(x \in StringFields /\ o[x] = Undefined)} |-> o[k]]

\* row.analysis = JSON.parse(row.analysis_json || '{}')
ParseAnalysis(row) == JsonRoundTrip(row.analysis_json)

\* db.getEntity(entityId)
getEntity(id) ==
    IF ~_ready THEN {} ELSE {r \in entities : r.entity_id = id}

\* db.queryEntities({ limit: 2000 }): the rows, or none when the query fails
queryEntities(queryOk) ==
    IF ~_ready \/ ~queryOk THEN {} ELSE entities

\* the object both the startup restore and entity:details build from a row
RestoredEntity(row) ==
    Spread([ entity_id     |-> row.entity_id,
             entity_type   |-> row.entity_type,
             source_url    |-> row.source_url,
             image_url     |-> IF ToUpper(row.entity_type) = "IMAGE"
                               THEN row.source_url ELSE Undefined,
             title         |-> row.title,
             content_title |-> row.title,
             url           |-> row.source_url,
             text          |-> row.extracted_text,
             risk_level    |-> row.risk_level,
             detected_at   |-> row.detected_at,
             _from_db      |-> TRUE ],
           ParseAnalysis(row))

Lookup(id, found, source, entity) ==
    [id |-> id, epoch |-> restarts, found |-> found, source |-> source, entity |-> entity]

\* the process exits and app.whenReady runs again: in-flight handlers are gone,
\* the backend and its session start afresh, initDb opens the same file, and
\* the cache is rebuilt from the rows queryEntities returns
Restart ==
    \E opened \in BOOLEAN, queryOk \in BOOLEAN :
        /\ restarts < MaxRestarts
        /\ restarts' = restarts + 1
        /\ dbOpen' = opened
        /\ windowAlive' = TRUE
        /\ seenImageUrls' = {}
        /\ tasks' = [i \in DOMAIN tasks |->
                        IF tasks[i].stage = "done" THEN tasks[i]
                        ELSE [tasks[i] EXCEPT !.stage = "killed"]]
        /\ trustScore' = InitialTrustScore
        /\ engineLog' = << >>
        /\ ENTITY_CACHE' =
              LET rows == IF opened /\ queryOk THEN entities ELSE {}
              IN  [id \in {r.entity_id : r \in rows} |->
                      RestoredEntity(CHOOSE r \in rows : r.entity_id = id)]
        /\ obsEpoch' = {}
        /\ obsCount' = [u \in ImageUrls |-> 0]
        /\ UNCHANGED << now, entities, trust_history, audit_log, published, replies,
                        epochsObserved, imgCalls, reconLog, lookups, chainVars, monitorVars, faultVars, advisoryVars, requestVars >>

LookupIds == {ImageEntityId(ImgA), TextEntityId(PageN, "Alpha"), "sha256:other", ""}

NotCached(cache, id, restored) == cache

\* ENTITY_CACHE.set(entityId, restored)
CacheRestored(cache, id, restored) == CacheSet(cache, id, restored)

\* ipcMain.handle('entity:details')
EntityDetails ==
    \E id \in LookupIds, rnd \in Randoms :
        /\ Len(lookups) < MaxLookups
        /\ IF id = ""
           THEN /\ lookups' = Append(lookups, Lookup(id, FALSE, "none", EmptyObj))
                /\ UNCHANGED << ENTITY_CACHE, audit_log >>
           ELSE IF Has(ENTITY_CACHE, id)
           THEN /\ audit_log' = insertAuditLog(audit_log, "ENTITY_VIEWED", id, "",
                                    [source |-> "cache"], now, rnd)
                /\ lookups' = Append(lookups, Lookup(id, TRUE, "cache", ENTITY_CACHE[id]))
                /\ UNCHANGED ENTITY_CACHE
           ELSE IF getEntity(id) # {}
           THEN LET restored == RestoredEntity(CHOOSE r \in getEntity(id) : TRUE)
                IN  /\ ENTITY_CACHE' = CacheRestored(ENTITY_CACHE, id, restored)
                    /\ audit_log' = insertAuditLog(audit_log, "ENTITY_VIEWED", id, "",
                                        [source |-> "db_restore"], now, rnd)
                    /\ lookups' = Append(lookups, Lookup(id, TRUE, "db", restored))
           ELSE /\ lookups' = Append(lookups, Lookup(id, FALSE, "none", EmptyObj))
                /\ UNCHANGED << ENTITY_CACHE, audit_log >>
        /\ UNCHANGED << now, windowAlive, dbOpen, seenImageUrls, tasks, trustScore,
                        engineLog, entities, trust_history, published, replies,
                        obsEpoch, obsCount, epochsObserved, imgCalls, reconLog,
                        restarts, chainVars, monitorVars, faultVars, advisoryVars, requestVars >>

NextStore ==
    \/ IpcImageUrl(MaxStoreCaptures, {ImgA})
    \/ BackendImageOk(ImageVerdicts)
    \/ CompleteImage
    \/ IpcTextArticle(MaxStoreCaptures)
    \/ BackendTextOk(TextVerdicts)
    \/ GeminiSettle(GeminiResponses)
    \/ CompleteText
    \/ Restart
    \/ EntityDetails

SpecStore == Init /\ [][NextStore]_vars

\* every field of a is on b with the same value
KeepsFields(a, b) ==
    \A k \in DOMAIN a : Has(b, k) /\ b[k] = a[k]

StoredOnce(id) ==
    /\ dbOpen
    /\ Has(lastUpsert, id) /\ lastUpsert[id].n = 1
    /\ \E r \in entities : r.entity_id = id

\* C13: for an entity stored by a pipeline path, a lookup through
\* entity:details after a restart succeeds and returns the same value for
\* every field as the lookup of the same id returned before the restart.
C13_RestartRoundTrip ==
    \A m \in DOMAIN lookups, n \in DOMAIN lookups :
        ( /\ lookups[m].epoch = 0
          /\ lookups[n].epoch = 1
          /\ lookups[m].id = lookups[n].id
          /\ lookups[m].found
          /\ StoredOnce(lookups[m].id) )
        => /\ lookups[n].found
           /\ KeepsFields(lookups[m].entity, lookups[n].entity)


LastLookup == lookups'[Len(lookups')]

\* what one entity:details call may do, told from the state it started in
LookupStep ==
    lookups' # lookups =>
        LET l == LastLookup
            row == {r \in entities : r.entity_id = l.id}
        IN  IF Has(ENTITY_CACHE, l.id)
            THEN /\ l.found /\ l.source = "cache"
                 /\ l.entity = ENTITY_CACHE[l.id]
                 /\ ENTITY_CACHE' = ENTITY_CACHE
                 /\ entities' = entities
            ELSE IF dbOpen /\ row # {}
            THEN /\ l.found /\ l.source = "db"
                 /\ Has(ENTITY_CACHE', l.id)
                 /\ ENTITY_CACHE'[l.id] = l.entity
                 /\ \A r \in row : l.entity = RestoredEntity(r)
                 /\ entities' = entities
            ELSE /\ ~l.found
                 /\ ENTITY_CACHE' = ENTITY_CACHE
                 /\ entities' = entities
                 /\ trust_history' = trust_history
                 /\ audit_log' = audit_log

\* a lookup that follows a successful lookup of the same id, with no restart
\* between them, is served from the cache
ServedFromCacheNext ==
    \A m \in DOMAIN lookups, n \in DOMAIN lookups :
        ( /\ m < n
          /\ lookups[m].id = lookups[n].id
          /\ lookups[m].epoch = lookups[n].epoch
          /\ lookups[m].found )
        => lookups[n].found /\ lookups[n].source = "cache"

\* C14: entity:details returns the cached entity when the cache has the id; on a
\* miss it reads the entities table and, if the row exists, puts the rebuilt
\* entity into the cache before returning it, so that the next lookup of the id
\* is served from the cache; when neither has the id it returns null and
\* changes neither the cache nor the store.
C14_CacheFirstThenStore == []ServedFromCacheNext /\ [][LookupStep]_vars

C14_Witness ==
    \E m \in DOMAIN lookups, n \in DOMAIN lookups :
        /\ m < n
        /\ lookups[m].id = lookups[n].id
        /\ lookups[m].source = "db"
        /\ lookups[n].source = "cache"
        /\ lookups[n].entity = lookups[m].entity


AuditIdsUnique ==
    \A r1 \in audit_log, r2 \in audit_log : r1.event_id = r2.event_id => r1 = r2

AuditRowsKept == \A r \in audit_log : r \in audit_log'

\* invocations that called insertAuditLog: reconciled ones and rejected passive ones
AuditWriters ==
    {i \in DOMAIN tasks :
        \/ Has(merged, i)
        \/ /\ tasks[i].path \in {"image", "text"}
           /\ tasks[i].stage = "done"
           /\ tasks[i].res.st = "rejected"}

\* C15: inserting an audit event whose event_id is already in audit_log leaves
\* every column of the existing row as it was and adds no row: event ids stay
\* unique and no step changes or removes a row.
C15_DuplicateAuditIgnored == []AuditIdsUnique /\ [][AuditRowsKept]_vars

\* an insert was ignored: more inserts were made than rows exist
C15_Witness ==
    /\ dbOpen
    /\ Cardinality(AuditWriters) = 2
    /\ Cardinality(audit_log) = 1
    /\ \E i \in AuditWriters, r \in audit_log :
          tasks[i].res.st = "ok" /\ r.event_type = "ANALYSIS_FAILED"

-----------------------------------------------------------------------------
(* The webview text monitor on its own *)

\* one document from its load on
NextPage ==
    \/ DomContentLoaded
    \/ WindowLoad
    \/ LoadTimerFires
    \/ Mutate(PageContents)
    \/ MonitorTick
    \/ DebounceFires
    \/ CeilingFires
    \/ DeliverTextCapture

\* The event loop runs an expired timer and a dispatched event, and time passes.
PageFairness ==
    /\ WF_vars(DomContentLoaded)
    /\ WF_vars(WindowLoad)
    /\ WF_vars(LoadTimerFires)
    /\ WF_vars(MonitorTick)
    /\ WF_vars(DebounceFires)
    /\ WF_vars(CeilingFires)
    /\ WF_vars(DeliverTextCapture)

SpecPage == Init /\ [][NextPage]_vars /\ PageFairness

\* a session: documents are loaded one after the other, routes change in place
NextMonitor ==
    \/ Navigate(SessionContents)
    \/ DomContentLoaded
    \/ WindowLoad
    \/ LoadTimerFires
    \/ SpaNavigate
    \/ UrlPoll
    \/ SpaTimerFires
    \/ Mutate(SessionContents)
    \/ MonitorTick
    \/ DebounceFires
    \/ CeilingFires
    \/ DeliverTextCapture

SpecMonitor == Init /\ [][NextMonitor]_vars

-----------------------------------------------------------------------------
(* Properties of the webview text monitor *)

ExtractionRan == extracted' # extracted

CaptureSent == Len(inFlight') = Len(inFlight) + 1

CapturedBefore == [load |-> loads, url |-> href] \in sentLog

ThresholdDecides ==
    /\ ExtractionRan /\ WordCount(page) <= MinWords - 1 => inFlight' = inFlight
    /\ ExtractionRan /\ WordCount(page) >= MinWords => (CaptureSent <=> ~CapturedBefore)
    /\ CaptureSent => ExtractionRan /\ inFlight'[Len(inFlight')].url = href

\* C16: when extraction runs on a page whose prose, boilerplate stripped, counts
\* 149 words or fewer, no capture is sent; when it counts 150 words or more, a
\* capture is sent unless this page already had its one capture; nothing else
\* sends a capture.
C16_WordThreshold == [][ThresholdDecides]_vars

\* one extraction ran, on exactly 150 words, and sent the page's one capture
C16_Witness ==
    /\ extracted
    /\ WordCount(page) = MinWords
    /\ sentLog = {[load |-> 1, url |-> PageN]}
    /\ Len(inFlight) = 1
    /\ inFlight[1].word_count = MinWords

TextCallsFor(u) == {i \in DOMAIN tasks : tasks[i].path = "text" /\ tasks[i].url = u}

\* C17: in one session at most one text capture per page URL reaches the text
\* analyzer, whatever mutations, timers, load events and navigations follow.
C17_OncePerSession == \A u \in MonitorUrls : Cardinality(TextCallsFor(u)) <= 1

\* C18: on a page whose debounce timer is re-armed again and again and whose
\* prose from some moment on counts at least 150 words, a capture is
\* eventually sent.
C18_CeilingForcesCapture ==
    ([]<>(_textDebounceTimer = DebounceTicks) /\ <>[]Qualifies(page)) => <>(sentLog # {})

-----------------------------------------------------------------------------
(* The passive pipelines over a database whose writes may fail *)

MaxFaultCaptures == 2   \* pipeline invocations per behaviour of SpecFaults

\* statements of some tables start or stop raising errors (disk full, locked file)
DbFaultIn(tables) ==
    \E s \in SUBSET tables :
        /\ s # writeFails
        /\ writeFails' = s
        /\ UNCHANGED << pipelineVars, chainVars, monitorVars, advisoryVars, requestVars >>

DbFault == DbFaultIn(DbTables)

NextFaults ==
    \/ IpcImageUrl(MaxFaultCaptures, {ImgA})
    \/ BackendImageOk(ImageVerdicts)
    \/ CompleteImage
    \/ IpcTextArticle(MaxFaultCaptures)
    \/ BackendTextOk(TextVerdicts)
    \/ GeminiSettle(GeminiResponses)
    \/ CompleteText
    \/ DbFault

SpecFaults == Init /\ [][NextFaults]_vars

PassiveEntityId(i) ==
    IF tasks[i].path = "image" THEN ImageEntityId(tasks[i].url)
    ELSE TextEntityId(tasks[i].url, tasks[i].title)

AnalyzedOk(i) ==
    /\ tasks[i].path \in {"image", "text"}
    /\ tasks[i].stage = "done"
    /\ tasks[i].res.st = "ok"

\* C19: a passive capture whose analysis succeeded is in ENTITY_CACHE and its
\* event was published, whether or not the database is open and whichever of
\* its writes failed.
C19_CachedAndPublishedAnyway ==
    \A i \in DOMAIN tasks :
        AnalyzedOk(i) /\ windowAlive =>
            /\ Has(ENTITY_CACHE, PassiveEntityId(i))
            /\ Has(eventOf, i)
            /\ eventOf[i] \in DOMAIN published
            /\ published[eventOf[i]].payload.entity_id = PassiveEntityId(i)

\* the database is open, the entity upsert failed, the audit insert went through
C19_Witness ==
    /\ dbOpen
    /\ \E i \in DOMAIN tasks : AnalyzedOk(i)
    /\ entities = {}
    /\ audit_log # {}
    /\ published # << >>

-----------------------------------------------------------------------------
(* Settling of the analyzer requests *)

MaxSettleCaptures == 2  \* pipeline invocations per behaviour of SpecSettle

NoTimeout == 0
PassiveTextTimeoutMs == 30000

\* the `signal: AbortSignal.timeout(...)` of the analyzer fetch of each pipeline
AnalyzerTimeoutMs(path) ==
    CASE path = "text"        -> PassiveTextTimeoutMs
      [] path = "image"       -> NoTimeout
      [] path = "manualImage" -> NoTimeout
      [] path = "manualText"  -> NoTimeout
      [] path = "manualPaste" -> NoTimeout

\* AbortSignal.timeout expires on a request still unanswered: fetch rejects
FetchTimesOut ==
    \E i \in DOMAIN tasks :
        /\ tasks[i].stage = "analyze"
        /\ tasks[i].res.st = "pending"
        /\ AnalyzerTimeoutMs(tasks[i].path) # NoTimeout
        /\ tasks' = [tasks EXCEPT ![i].res = [st |-> "rejected", body |-> EmptyObj]]
        /\ UNCHANGED << now, windowAlive, dbOpen, seenImageUrls, trustScore, engineLog,
                        ENTITY_CACHE, entities, trust_history, audit_log, published,
                        replies, obsEpoch, obsCount, epochsObserved, imgCalls, reconLog,
                        chainVars, viewVars, monitorVars, faultVars, advisoryVars, requestVars >>

NextSettle ==
    \/ IpcImageUrl(MaxSettleCaptures, {ImgA})
    \/ BackendImageOk(ImageVerdicts)
    \/ BackendFail
    \/ CompleteImage
    \/ IpcTextArticle(MaxSettleCaptures)
    \/ BackendTextOk(TextVerdicts)
    \/ GeminiSettle(GeminiResponses)
    \/ FetchTimesOut
    \/ CompleteText

\* A timer that is armed expires, the enrichment call settles (it carries its own
\* 25 s timeout) and a handler whose await has settled runs on; the analyzer
\* itself need not ever answer.
SettleFairness ==
    /\ WF_vars(FetchTimesOut)
    /\ WF_vars(GeminiSettle(GeminiResponses))
    /\ WF_vars(CompleteImage)
    /\ WF_vars(CompleteText)

SpecSettle == Init /\ [][NextSettle]_vars /\ SettleFairness

\* C20: every analyzer call carries a timeout, so every pipeline invocation
\* that was started eventually settles.
C20_EveryPipelineSettles ==
    \A i \in 1..MaxSettleCaptures :
        (i \in DOMAIN tasks) ~> (i \in DOMAIN tasks /\ tasks[i].stage = "done")

-----------------------------------------------------------------------------
(* Properties of the advisory handlers *)

AdvisoryFinishes == advisory.st = "awaiting" /\ advisory'.st = "done"

FailureReported ==
    AdvisoryFinishes /\ chainResult.st = "thrown" =>
        /\ advisory'.reply = "error"
        /\ legal_sessions' = legal_sessions
        /\ audit_log' = audit_log

\* C21: an advisory handler whose provider chain failed altogether answers its
\* caller with an error object, and persists no advisory session and no audit
\* event; a finished handler has always answered.
C21_AdvisoryFailureIsReturned ==
    /\ [](advisory.st = "done" => advisory.reply \in {"error", "result"})
    /\ [][FailureReported]_vars

\* all five providers failed with the database open, and nothing was persisted
C21_Witness ==
    /\ dbOpen
    /\ advisory.st = "done"
    /\ advisory.op = "legal:generate-complaint"
    /\ Len(chainCalls) = Len(FREE_MODELS)
    /\ chainResult.st = "thrown"
    /\ advisory.reply = "error"
    /\ legal_sessions = << >>
    /\ audit_log = {}

\* `sub` occurs in `text` as one piece
Contains(text, sub) ==
    \E i \in 0..(Len(text) - Len(sub)) : SubSeq(text, i + 1, i + Len(sub)) = sub

SystemMessages(messages) == { messages[j] : j \in { i \in DOMAIN messages : messages[i].role = "system" } }

\* C28: to a provider flagged noSystem the list sent holds no system-role message
\* and its leading message is a user message that contains the text of every
\* system instruction; to any other provider the list is sent unchanged.
C28_SystemMergedForNoSystem ==
    \A k \in DOMAIN chainSent :
        LET sent == chainSent[k]
        IN  IF FREE_MODELS[k].noSystem
            THEN /\ \A j \in DOMAIN sent : sent[j].role # "system"
                 /\ sent # << >>
                 /\ sent[1].role = "user"
                 /\ \A m \in SystemMessages(advisory.messages) :
                        Contains(sent[1].content, m.content)
            ELSE sent = advisory.messages

\* ai:chat with a history that opens with an assistant message and one with a
\* second system message were both sent to a noSystem provider
C28_Witness ==
    /\ advisory.op = "ai:chat"
    /\ Len(chainSent) >= 4
    /\ FREE_MODELS[2].noSystem /\ ~FREE_MODELS[4].noSystem
    /\ Len(advisory.messages) = 3
    /\ advisory.messages[3].role = "system"
    /\ Len(chainSent[2]) = 1
    /\ chainSent[4] = advisory.messages

-----------------------------------------------------------------------------
(* What the analyzers answer is taken over as it comes *)

MaxProviderCaptures == 2   \* pipeline invocations per behaviour of SpecProvider

\* the image analyzer may also answer a probability beyond 1, a label outside
\* LOW/MEDIUM/HIGH, or no label
ProviderImageVerdicts ==
    ImageVerdicts \cup
    { [fake_probability |-> 170, risk_level |-> "CRITICAL", forensic_explanation |-> <<>>],
      [fake_probability |-> 50, risk_level |-> Undefined, forensic_explanation |-> <<>>] }

ProviderTextVerdicts ==
    TextVerdicts \cup
    { [ai_generated_probability |-> 130, misinformation_risk |-> "CRITICAL",
       credibility_score |-> 0 - 20, explanation |-> <<>>] }

\* an enrichment answer with values out of range
GeminiWild ==
    [ summary |-> "S", topic |-> "Politics", key_claims |-> <<"k1">>,
      ai_generated_probability |-> 250, misinformation_risk |-> "SEVERE",
      credibility_score |-> 0 - 10, forensic_explanation |-> <<"g1">> ]

ProviderGeminiResponses ==
    { [kind |-> "status", parsed |-> EmptyObj], GeminiAnswer(GeminiWild) }

NextProvider ==
    \/ IpcImageUrl(MaxProviderCaptures, {ImgA})
    \/ BackendImageOk(ProviderImageVerdicts)
    \/ CompleteImage
    \/ IpcTextArticle(MaxProviderCaptures)
    \/ BackendTextOk(ProviderTextVerdicts)
    \/ GeminiSettle(ProviderGeminiResponses)
    \/ CompleteText

SpecProvider == Init /\ [][NextProvider]_vars

ProbabilityFields == {"fake_probability", "ai_generated_probability", "credibility_score"}

\* probabilities are percentages in the model: [0, 1] is 0..100
InUnitInterval(o) == \A k \in ProbabilityFields \cap DOMAIN o : o[k] \in 0..100

\* C22: every probability field of a reconciled entity lies in [0, 1], in the
\* cached entity, in the stored row and in the published event, whether the
\* primary analyzer or the enrichment supplied it.
C22_ProbabilitiesInUnitInterval ==
    /\ \A id \in DOMAIN ENTITY_CACHE : InUnitInterval(ENTITY_CACHE[id])
    /\ \A r \in entities : InUnitInterval(r.analysis_json)
    /\ \A k \in DOMAIN published : InUnitInterval(published[k].payload)

RiskOf(o) ==
    IF Has(o, "risk_level") THEN o.risk_level ELSE GetStr(o, "misinformation_risk")

\* C23: every reconciled entity and every row of entities has a risk level among
\* LOW, MEDIUM, HIGH; an absent or other label of the provider has become LOW.
C23_RiskLevelValid ==
    /\ \A id \in DOMAIN ENTITY_CACHE : RiskOf(ENTITY_CACHE[id]) \in Risks
    /\ \A r \in entities : r.risk_level \in Risks

-----------------------------------------------------------------------------
(* Trust history *)

\* the reconciliations of this step: the invocations whose merged entity is new
ReconciledNow == DOMAIN merged' \ DOMAIN merged

PointOf(entity, t) ==
    [ entity_id |-> entity.entity_id, trust_score |-> entity.trust_score,
      delta |-> entity.trust_score_delta, timestamp |-> IsoSeconds(t) ]

TrustHistoryStep ==
    /\ \A n \in DOMAIN trust_history :
          n \in DOMAIN trust_history' /\ trust_history'[n] = trust_history[n]
    /\ \A i \in ReconciledNow :
          dbOpen => trust_history' = Append(trust_history, PointOf(merged'[i], now))
    /\ ReconciledNow = {} => trust_history' = trust_history

\* C24: with the database open, each reconciliation (passive image, passive
\* text, manual URL, manual text) appends exactly one trust_history row for the
\* entity's id, holding the trust_score and trust_score_delta stamped on the
\* entity; no other step touches trust_history and no row recorded is ever
\* changed or removed.
C24_OnePointPerReconciliation == [][TrustHistoryStep]_vars

\* one entity reconciled twice, by two paths: two points for its id
C24_Witness ==
    /\ dbOpen
    /\ Cardinality(DOMAIN merged) = 2
    /\ \E i, j \in DOMAIN merged :
          /\ i # j
          /\ tasks[i].path # tasks[j].path
          /\ merged[i].entity_id = merged[j].entity_id
    /\ Len(trust_history) = 2
    /\ trust_history[1].entity_id = trust_history[2].entity_id
    /\ trust_history[1].trust_score # trust_history[2].trust_score

-----------------------------------------------------------------------------
(* db.js reads: per-entity histories *)

MaxHistoryCaptures == 2   \* pipeline invocations per behaviour of SpecHistory

\* the orders in which `... WHERE entity_id = @entity_id ORDER BY timestamp ASC` may
\* return the rows `idxs` of `table`: ascending in timestamp, rows of one
\* timestamp in any order (the statement names no further sort key)
OrderByTimestamp(table, idxs) ==
    { f \in [1..Cardinality(idxs) -> idxs] :
        /\ \A a, b \in DOMAIN f : a # b => f[a] # f[b]
        /\ \A a, b \in DOMAIN f : a < b => table[f[a]].timestamp <= table[f[b]].timestamp }

\* the rows a statement returns, each with its rowid as `id`
RowsOf(table, f) == [n \in DOMAIN f |-> Spread(table[f[n]], [id |-> f[n]])]

Limit(rows, n) == SubSeq(rows, 1, Min(Len(rows), n))

\* db.queryTrustHistory(entityId): the results it may return
queryTrustHistory(entityId) ==
    IF ~_ready \/ entityId = "" THEN { << >> }
    ELSE LET idxs == { n \in DOMAIN trust_history : trust_history[n].entity_id = entityId }
         IN  { RowsOf(trust_history, f) : f \in OrderByTimestamp(trust_history, idxs) }

\* db.getLegalChatHistory(entityId): the results it may return
getLegalChatHistory(entityId) ==
    IF ~_ready \/ entityId = "" THEN { << >> }
    ELSE LET idxs == { n \in DOMAIN legal_sessions : legal_sessions[n].entity_id = entityId }
         IN  { Limit(RowsOf(legal_sessions, f), 200) :
                   f \in OrderByTimestamp(legal_sessions, idxs) }

HistoryEntityIds == {"", ImageEntityId(ImgA)}

Answered(op, args, records, total) ==
    /\ queried' = [op |-> op, args |-> args, records |-> records, total |-> total]
    /\ UNCHANGED << pipelineVars, chainVars, monitorVars, faultVars, advisoryVars,
                    exportTask, exportBtn >>

\* ipcMain.handle('db:query') with table 'trust'
QueryTrustHistory ==
    \E e \in HistoryEntityIds : \E rows \in queryTrustHistory(e) :
        Answered("queryTrustHistory", [entity_id |-> e], rows, 0)

\* ipcMain.handle('legal-chat:history')
LegalChatHistory ==
    \E e \in HistoryEntityIds : \E rows \in getLegalChatHistory(e) :
        Answered("getLegalChatHistory", [entity_id |-> e], rows, 0)

\* the first provider answers
HistoryChainStep ==
    advisory.st = "awaiting" /\ ChainStep({ProviderAnswer(FALSE, TRUE, FALSE, " Draft ")})

NextHistory ==
    \/ IpcImageUrl(MaxHistoryCaptures, {ImgA})
    \/ Navigated
    \/ BackendImageOk({[fake_probability |-> 30, risk_level |-> "LOW",
                          forensic_explanation |-> <<>>]})
    \/ CompleteImage
    \/ LegalChatQuery({ImageEntityId(ImgA)}, {<< >>, << "question" >>})
    \/ HistoryChainStep
    \/ AdvisoryComplete
    \/ Tick
    \/ QueryTrustHistory
    \/ LegalChatHistory

SpecHistory == Init /\ [][NextHistory]_vars

\* C25: a per-entity history read (trust history, advisory sessions) returns the
\* entity's rows oldest first, in the order in which they were appended, however
\* close in time the appends were.
C25_HistoryInAppendOrder ==
    queried.op \in {"queryTrustHistory", "getLegalChatHistory"} =>
        \A a, b \in DOMAIN queried.records :
            a < b => queried.records[a].id < queried.records[b].id

-----------------------------------------------------------------------------
(* db.js reads: the entity list *)

MaxQueryCaptures == 2   \* pipeline invocations per behaviour of SpecQuery

NoLimitClamp(limit) == limit

\* Math.max(1, Math.min(limit, 2000))
LimitClamp(limit) == Max(1, Min(limit, 2000))

\* WHERE (@type IS NULL OR entity_type = @type) AND (@risk IS NULL OR risk_level = @risk)
EntitiesWhere(t, r) ==
    { row \in entities : (t = Null \/ row.entity_type = t) /\ (r = Null \/ row.risk_level = r) }

\* the orders `ORDER BY detected_at DESC` may give the rows
OrderByDetectedDesc(rows) ==
    { f \in [1..Cardinality(rows) -> rows] :
        /\ \A a, b \in DOMAIN f : a # b => f[a] # f[b]
        /\ \A a, b \in DOMAIN f : a < b => f[a].detected_at >= f[b].detected_at }

\* db.queryEntities({ type, risk_level, limit }): the results it may return, each
\* with the @limit it bound to the statement
queryEntitiesFiltered(type, risk_level, limit) ==
    IF ~_ready THEN { [records |-> << >>, total |-> 0, limit |-> 0] }
    ELSE LET t == IF type \in {"", Null} THEN Null ELSE ToUpper(type)
             r == IF risk_level \in {"", Null} THEN Null ELSE ToUpper(risk_level)
             lim == LimitClamp(limit)
         IN  { [ records |-> [n \in DOMAIN Limit(f, lim) |->
                                 Spread(f[n], [analysis |-> ParseAnalysis(f[n])])],
                 total |-> Cardinality(EntitiesWhere(t, r)),
                 limit |-> lim ] :
               f \in OrderByDetectedDesc(EntitiesWhere(t, r)) }

TypeFilters == {Null, "image"}
RiskFilters == {Null, "high"}
\* 500 is what an absent limit becomes
Limits == {0, 500, 5000}

\* ipcMain.handle('db:query') with action 'entities'
QueryEntities ==
    \E type \in TypeFilters, risk \in RiskFilters, limit \in Limits :
        \E res \in queryEntitiesFiltered(type, risk, limit) :
            Answered("queryEntities",
                     [type |-> type, risk_level |-> risk, limit |-> limit,
                      bound |-> res.limit],
                     res.records, res.total)

NextQuery ==
    \/ IpcImageUrl(MaxQueryCaptures, {ImgA})
    \/ BackendImageOk(ImageVerdicts)
    \/ CompleteImage
    \/ IpcTextArticle(MaxQueryCaptures)
    \/ BackendTextOk({[ai_generated_probability |-> 20, misinformation_risk |-> "LOW",
                        credibility_score |-> 70, explanation |-> <<>>]})
    \/ GeminiSettle({[kind |-> "status", parsed |-> EmptyObj]})
    \/ CompleteText
    \/ Tick
    \/ QueryEntities

SpecQuery == Init /\ [][NextQuery]_vars

\* the stored entities a filter pair selects, the filters compared without case
MatchingEntities(args) ==
    { row \in entities :
        /\ args.type = Null \/ row.entity_type = ToUpper(args.type)
        /\ args.risk_level = Null \/ row.risk_level = ToUpper(args.risk_level) }

EntityListAnswer ==
    queried'.op = "queryEntities" /\ queried' # queried /\ dbOpen =>
        LET args == queried'.args
            records == queried'.records
            match == MatchingEntities(args)
            ids == { records[n].entity_id : n \in DOMAIN records }
        IN  /\ queried'.total = Cardinality(match)
            /\ args.bound = Clamp(args.limit, 1, 2000)
            /\ Len(records) = Min(args.bound, Cardinality(match))
            /\ Cardinality(ids) = Len(records)
            /\ \A n \in DOMAIN records :
                  \E row \in match :
                      /\ row.entity_id = records[n].entity_id
                      /\ row.detected_at = records[n].detected_at
            /\ \A a, b \in DOMAIN records :
                  a < b => records[a].detected_at >= records[b].detected_at
            /\ \A row \in match :
                  row.entity_id \notin ids =>
                      \A n \in DOMAIN records : records[n].detected_at >= row.detected_at

\* C26: queryEntities answers with total = the number of stored entities that
\* match the type and risk filters, whatever the limit, and with records = the
\* matching entities, most recently detected first, cut to the limit clamped
\* into [1, 2000].
C26_EntityList == [][EntityListAnswer]_vars

\* limit 0 was clamped to 1: one record, the most recent, out of two stored
C26_Witness ==
    /\ queried.op = "queryEntities"
    /\ queried.args.limit = 0
    /\ queried.args.type = Null /\ queried.args.risk_level = Null
    /\ queried.total = 2
    /\ Len(queried.records) = 1
    /\ \E row \in entities : row.detected_at < queried.records[1].detected_at

-----------------------------------------------------------------------------
(* The event a passive capture publishes *)

\* this step runs the rest of a passive pipeline whose analyzer answered 2xx,
\* with the window alive
CompletesAnalyzed(i) ==
    /\ tasks[i].path \in {"image", "text"}
    /\ tasks[i].stage = "analyze"
    /\ tasks'[i].stage = "done"
    /\ tasks[i].res.st = "ok"
    /\ windowAlive

ScoreFields ==
    ProbabilityFields \cup
    {"risk_level", "misinformation_risk", "trust_score", "trust_score_delta"}

\* `payload` carries every score field of `entity`, with the entity's value
CarriesScores(payload, entity) ==
    \A k \in ScoreFields \cap DOMAIN entity : k \in DOMAIN payload /\ payload[k] = entity[k]

RowAgrees(row, payload) ==
    /\ row.risk_level = RiskOf(payload)
    /\ row.analysis_json.trust_score = payload.trust_score
    /\ \A k \in ProbabilityFields \cap DOMAIN payload : row.analysis_json[k] = payload[k]

PublishStep ==
    /\ \A i \in DOMAIN tasks :
          CompletesAnalyzed(i) =>
              /\ Len(published') = Len(published) + 1
              /\ SubSeq(published', 1, Len(published)) = published
              /\ LET id == PassiveEntityId(i)
                     payload == published'[Len(published')].payload
                 IN  /\ payload.entity_id = id
                     /\ Has(ENTITY_CACHE', id)
                     /\ ENTITY_CACHE'[id].entity_id = id
                     /\ CarriesScores(payload, ENTITY_CACHE'[id])
                     /\ dbOpen => \E row \in entities' :
                                      row.entity_id = id /\ RowAgrees(row, payload)
    /\ (\A i \in DOMAIN tasks : ~CompletesAnalyzed(i)) => published' = published

\* C27: a passive capture whose primary analysis succeeded (the window being
\* there to receive it) publishes exactly one event, which carries the
\* entity_id, probabilities, risk and trust fields of the merged entity that the
\* same step cached and stored; no other step publishes anything.
C27_OneEventPerCapture == [][PublishStep]_vars

\* a text capture whose enrichment overrode the primary scores was published
C27_Witness ==
    \E i \in DOMAIN eventOf :
        /\ tasks[i].path = "text"
        /\ tasks[i].gemini.st = "ok"
        /\ dbOpen
        /\ published[eventOf[i]].payload.ai_generated_probability
               # tasks[i].res.body.ai_generated_probability
        /\ published[eventOf[i]].payload.ai_generated_probability
               = ENTITY_CACHE[PassiveEntityId(i)].ai_generated_probability

-----------------------------------------------------------------------------
(* Invalid input at the entry points *)

MaxRejectCaptures == 2   \* pipeline invocations per behaviour of SpecReject

NextReject ==
    \/ IpcImageUrl(MaxRejectCaptures, ImageUrls)
    \/ ManualUrlOf(MaxRejectCaptures, {ImgA, ImgData})
    \/ BackendImageOk({[fake_probability |-> 30, risk_level |-> "LOW",
                        forensic_explanation |-> <<>>]})
    \/ CompleteImage
    \/ CompleteManualImage
    \/ LegalChatQuery({"e1"}, {<< " " >>, << "question" >>})
    \/ HistoryChainStep
    \/ AdvisoryComplete

SpecReject == Init /\ [][NextReject]_vars

\* this step is 'image-monitor:url' receiving a URL that is not http(s)
InvalidImageUrlReceived ==
    \E u \in ImageUrls : ~isValidHttpUrl(u) /\ obsCount'[u] # obsCount[u]

\* this step is analyze:manual-url receiving a URL that is not http(s)
InvalidManualUrlReceived ==
    /\ Len(tasks') = Len(tasks) + 1
    /\ tasks'[Len(tasks')].path = "manualUrl"
    /\ ~isValidHttpUrl(tasks'[Len(tasks')].url)

\* this step is legal-chat:query receiving an empty or blank query
EmptyQueryReceived ==
    /\ advisory'.n = advisory.n + 1
    /\ advisory'.op = "legal-chat:query"
    /\ TrimQuery(advisory'.query) = << >>

\* no analyzer or provider call, no cache entry, no row, no audit event, nothing
\* published, and the rest of the program's state as it was
NoSideEffects ==
    /\ \A i \in DOMAIN tasks' : i \notin DOMAIN tasks => tasks'[i].stage = "done"
    /\ UNCHANGED << imgCalls, chainVars, trustScore, engineLog, ENTITY_CACHE, entities,
                    trust_history, audit_log, legal_sessions, published, seenImageUrls,
                    windowAlive, dbOpen >>

RejectStep ==
    InvalidImageUrlReceived \/ InvalidManualUrlReceived \/ EmptyQueryReceived
        => NoSideEffects

\* C29: an image or manual-analysis URL that is not http(s), and an empty or
\* blank legal-chat query, are rejected with no side effects: no analyzer or
\* provider call, no cache entry, no durable row, no audit event and no other
\* change of state.
C29_InvalidInputRejected == [][RejectStep]_vars

-----------------------------------------------------------------------------
(* Evidence export: the entity view's button and 'evidence:export-pdf' *)

MaxExports == 3   \* export clicks (PDF or JSON) per behaviour

ExportUnchanged ==
    UNCHANGED << now, windowAlive, dbOpen, seenImageUrls, tasks, trustScore, engineLog,
                 ENTITY_CACHE, entities, trust_history, published, replies, obsEpoch,
                 obsCount, epochsObserved, imgCalls, reconLog, chainVars, viewVars,
                 monitorVars, faultVars, advisoryVars, queried >>

\* _flashBtn(btn, html, duration, restoreHtml)
_flashBtn(btn, html) ==
    [btn EXCEPT !.label = html, !.success = TRUE, !.timers = @ + 1]

\* the timeout of a _flashBtn call runs
FlashTimerFires ==
    /\ exportBtn.timers > 0
    /\ exportBtn' = [exportBtn EXCEPT !.label = IdleLabel, !.success = FALSE,
                                      !.timers = @ - 1]
    /\ UNCHANGED << exportTask, audit_log >>
    /\ ExportUnchanged

\* click on #export-btn: a disabled button gets no click
ToggleDropdown ==
    /\ ~exportBtn.disabled
    /\ exportBtn' = [exportBtn EXCEPT !.open = ~@]
    /\ UNCHANGED << exportTask, audit_log >>
    /\ ExportUnchanged

\* click on #export-json-btn in the open dropdown
ExportJson ==
    /\ exportBtn.open
    /\ exportTask.n < MaxExports
    /\ exportBtn' = _flashBtn([exportBtn EXCEPT !.open = FALSE], "JSON Saved")
    /\ exportTask' = [exportTask EXCEPT !.n = @ + 1]
    /\ UNCHANGED audit_log
    /\ ExportUnchanged

\* click on #export-pdf-btn in the open dropdown, an entity being shown: the
\* request goes to the parent window, which invokes 'evidence:export-pdf'
ClickExportPdf ==
    \E e \in AdvisoryEntityIds :
        /\ exportBtn.open
        /\ exportTask.st \in {"idle", "delivered"}
        /\ exportTask.n < MaxExports
        /\ exportBtn' = [exportBtn EXCEPT !.open = FALSE, !.disabled = TRUE,
                                          !.label = "Generating"]
        /\ exportTask' = [st |-> "dialog", entity_id |-> e, result |-> EmptyObj,
                          n |-> exportTask.n + 1]
        /\ UNCHANGED audit_log
        /\ ExportUnchanged

ExportCanceled == [canceled |-> TRUE]
ExportSaved == [success |-> TRUE, path |-> "report.pdf"]
ExportFailed == [error |-> "message"]

\* 'evidence:export-pdf' after `await dialog.showSaveDialog(...)`
ExportDialog ==
    \E choice \in {"canceled", "nopath", "chosen", "throws"} :
        /\ exportTask.st = "dialog"
        /\ exportTask' =
              CASE choice \in {"canceled", "nopath"} ->
                     [exportTask EXCEPT !.st = "replied", !.result = ExportCanceled]
                [] choice = "throws" ->
                     [exportTask EXCEPT !.st = "replied", !.result = ExportFailed]
                [] choice = "chosen" -> [exportTask EXCEPT !.st = "render"]
        /\ UNCHANGED << exportBtn, audit_log >>
        /\ ExportUnchanged

\* 'evidence:export-pdf' from the thumbnail fetch (whose failure is swallowed) to
\* its return: loadURL, printToPDF or writeFileSync may throw
ExportRender ==
    \E thumbnail \in BOOLEAN, outcome \in {"saved", "loadURL", "printToPDF", "writeFile"},
       rnd \in Randoms :
        /\ exportTask.st = "render"
        /\ IF outcome = "saved"
           THEN /\ audit_log' = insertAuditLog(audit_log, "PDF_EXPORTED",
                                    exportTask.entity_id, "", [path |-> "report.pdf"],
                                    now, rnd)
                /\ exportTask' = [exportTask EXCEPT !.st = "replied", !.result = ExportSaved]
           ELSE /\ UNCHANGED audit_log
                /\ exportTask' = [exportTask EXCEPT !.st = "replied", !.result = ExportFailed]
        /\ UNCHANGED exportBtn
        /\ ExportUnchanged

ErrorUnlessSaved(btn, result) ==
    IF Has(result, "success") /\ result.success
    THEN _flashBtn([btn EXCEPT !.disabled = FALSE], "PDF Saved")
    ELSE _flashBtn([btn EXCEPT !.disabled = FALSE], "Warning")

\* the 'ev:export-pdf-result' branch of the entity view's message listener
ButtonAfter(btn, result) ==
    IF Has(result, "success") /\ result.success
    THEN _flashBtn([btn EXCEPT !.disabled = FALSE], "PDF Saved")
    ELSE IF \/ Has(result, "canceled") /\ result.canceled
            \/ Has(result, "cancelled") /\ result.cancelled
    THEN [btn EXCEPT !.disabled = FALSE, !.label = IdleLabel, !.success = FALSE]
    ELSE _flashBtn([btn EXCEPT !.disabled = FALSE], "Warning")

\* the handler's return value reaches the entity view (through the parent window)
ExportResultShown ==
    /\ exportTask.st = "replied"
    /\ exportBtn' = ButtonAfter(exportBtn, exportTask.result)
    /\ exportTask' = [exportTask EXCEPT !.st = "delivered"]
    /\ UNCHANGED audit_log
    /\ ExportUnchanged

NextExport ==
    \/ ToggleDropdown
    \/ ExportJson
    \/ ClickExportPdf
    \/ ExportDialog
    \/ ExportRender
    \/ ExportResultShown
    \/ FlashTimerFires
    \/ Tick

SpecExport == Init /\ [][NextExport]_vars

Outcomes(result) == { k \in {"success", "canceled", "error"} : Has(result, k) }

\* the button after a result has arrived
ResultShown ==
    exportTask.st = "replied" /\ exportTask'.st = "delivered" =>
        /\ exportBtn'.label = "Warning" <=> Outcomes(exportTask.result) = {"error"}
        /\ Outcomes(exportTask.result) = {"canceled"} =>
              /\ ~exportBtn'.disabled
              /\ exportBtn'.label = IdleLabel
              /\ ~exportBtn'.success
              /\ exportBtn'.timers = exportBtn.timers

\* C30: an export that ends has exactly one of the outcomes success, cancellation
\* and hard failure; the button shows an error only for a hard failure (and
\* only while that failure is the last result); after a cancellation the button
\* is enabled again with its idle label and nothing is flashed.
C30_ExportOutcomes ==
    /\ [](exportTask.st \in {"replied", "delivered"} =>
              Cardinality(Outcomes(exportTask.result)) = 1)
    /\ [](exportBtn.label = "Warning" =>
              exportTask.st = "delivered" /\ Outcomes(exportTask.result) = {"error"})
    /\ [][ResultShown]_vars

\* a cancelled export that followed a failed one, the flash of the failure still
\* pending: the button is idle and enabled
C30_Witness ==
    /\ exportTask.n = 2
    /\ exportTask.st = "delivered"
    /\ exportTask.result = ExportCanceled
    /\ exportBtn.timers = 1
    /\ ~exportBtn.disabled
    /\ exportBtn.label = IdleLabel

-----------------------------------------------------------------------------
(* Reconciliation waits for the enrichment *)

\* invocation i of a text pipeline runs its continuation in this step
TextContinues(i) ==
    /\ tasks[i].path \in TextPaths
    /\ tasks[i].stage = "analyze"
    /\ tasks'[i].stage = "done"

\* this step builds an entity: it caches, stores or publishes something
BuildsEntity ==
    \/ ENTITY_CACHE' # ENTITY_CACHE
    \/ entities' # entities
    \/ trust_history' # trust_history
    \/ published' # published
    \/ merged' # merged

MergeWaitsStep ==
    \A i \in DOMAIN tasks :
        TextContinues(i) /\ BuildsEntity =>
            /\ tasks[i].res.st = "ok"
            /\ tasks[i].gemini.st \in {"ok", "null"}

\* C31: a text pipeline builds, caches, stores and publishes its entity only in
\* a step taken after both the primary analyzer request and the enrichment call
\* have settled; while the enrichment call is pending no entity comes from the
\* primary result. (A rejected primary request ends the wait at once, into the
\* catch block, which builds no entity.)
C31_MergeAfterBothSettle == [][MergeWaitsStep]_vars

\* one text capture was merged after its enrichment settled, while another,
\* whose primary analysis is in, still waits for its enrichment
C31_Witness ==
    /\ \E i \in DOMAIN merged :
          /\ tasks[i].path = "text"
          /\ tasks[i].gemini.st \in {"ok", "null"}
    /\ \E j \in DOMAIN tasks :
          /\ tasks[j].path = "text"
          /\ tasks[j].stage = "analyze"
          /\ tasks[j].res.st = "ok"
          /\ tasks[j].gemini.st = "pending"
          /\ ~Has(merged, j)

-----------------------------------------------------------------------------
(* Captures arriving while an analysis is in flight *)

MaxConcurrent == 3   \* pipeline invocations per behaviour of SpecConcurrent

NextConcurrent ==
    \/ InterceptImage(MaxConcurrent, ImageUrls)
    \/ IpcImageUrl(MaxConcurrent, ImageUrls)
    \/ IpcTextArticle(MaxConcurrent)
    \/ BackendImageOk({[fake_probability |-> 30, risk_level |-> "LOW",
                        forensic_explanation |-> <<>>]})
    \/ BackendTextOk({[ai_generated_probability |-> 20, misinformation_risk |-> "LOW",
                       credibility_score |-> 70, explanation |-> <<"p1">>]})
    \/ GeminiSettle({GeminiAnswer(GeminiGood)})
    \/ CompleteImage
    \/ CompleteText

SpecConcurrent == Init /\ [][NextConcurrent]_vars

\* some invocation has issued its analyzer request and its continuation has not run
AnalysisInFlight == \E i \in DOMAIN tasks : tasks[i].stage = "analyze"

\* this step starts one more invocation, its analyzer request issued, and leaves
\* the earlier ones as they are
NewCallIssued ==
    /\ Len(tasks') = Len(tasks) + 1
    /\ SubSeq(tasks', 1, Len(tasks)) = tasks
    /\ tasks'[Len(tasks')].stage = "analyze"
    /\ tasks'[Len(tasks')].res.st = "pending"

\* an image URL not seen since the last navigation (and within the model's bounds)
FreshImageUrls ==
    { u \in ImageUrls : /\ isValidHttpUrl(u)
                        /\ u \notin seenImageUrls
                        /\ (u \in obsEpoch \/ epochsObserved[u] < MaxEpochs) }

\* C32: while an analysis is in flight, a text capture and a not yet seen image
\* URL (through the IPC channel, and through the interceptor while the window
\* exists) can each be handled at once, and handling it issues its analyzer
\* request in the same step, leaving the earlier invocations untouched.
C32_CapturesNotBlocked ==
    AnalysisInFlight /\ Len(tasks) < MaxConcurrent =>
        /\ ENABLED (IpcTextArticle(MaxConcurrent) /\ NewCallIssued)
        /\ \A u \in FreshImageUrls :
              /\ ENABLED (IpcImageUrl(MaxConcurrent, {u}) /\ NewCallIssued)
              /\ windowAlive => ENABLED (InterceptImage(MaxConcurrent, {u}) /\ NewCallIssued)

\* three analyzer requests are pending at once, image and text among them
C32_Witness ==
    /\ Len(tasks) = 3
    /\ \A i \in DOMAIN tasks : tasks[i].stage = "analyze" /\ tasks[i].res.st = "pending"
    /\ \E i, j \in DOMAIN tasks : i < j /\ tasks[i].path = "image" /\ tasks[j].path = "text"
    /\ \E i, j \in DOMAIN tasks : i < j /\ tasks[i].path = "text" /\ tasks[j].path = "image"

-----------------------------------------------------------------------------
(* The db.js write helpers without a database and with failing statements *)

MaxWriteCaptures == 2   \* pipeline invocations per behaviour of SpecWrites

NextWrites ==
    \/ IpcImageUrl(MaxWriteCaptures, {ImgA})
    \/ BackendImageOk({[fake_probability |-> 80, risk_level |-> "HIGH",
                        forensic_explanation |-> <<"i1">>]})
    \/ CompleteImage
    \/ LegalChatQuery({"e1"}, {<< "question" >>})
    \/ HistoryChainStep
    \/ AdvisoryComplete
    \/ DbFaultIn(AllDbTables)

SpecWrites == Init /\ [][NextWrites]_vars

\* the write to `table` made now does not go through: there is no database, or
\* the statement raises an error
WriteFailsNow(table) == ~_ready \/ Fails(table)

\* the advisory handler runs the statements after its await in this step
AdvisoryPersists ==
    /\ advisory.st = "awaiting"
    /\ advisory'.st = "done"
    /\ chainResult.st = "returned"

WriteHelperStep ==
    /\ WriteFailsNow("entities") => entities' = entities
    /\ WriteFailsNow("trust_history") => trust_history' = trust_history
    /\ WriteFailsNow("audit_log") => audit_log' = audit_log
    /\ WriteFailsNow("legal_sessions") => legal_sessions' = legal_sessions
    /\ \A i \in DOMAIN tasks :
          CompletesAnalyzed(i) =>
              /\ ~WriteFailsNow("entities") =>
                    \E row \in entities' : row.entity_id = PassiveEntityId(i)
              /\ ~WriteFailsNow("trust_history") =>
                    Len(trust_history') = Len(trust_history) + 1
              /\ ~WriteFailsNow("audit_log") =>
                    \E row \in audit_log' : row.event_id[1] = now
              /\ Len(published') = Len(published) + 1
    /\ AdvisoryPersists =>
          /\ ~WriteFailsNow("legal_sessions") =>
                Len(legal_sessions') = Len(legal_sessions) + 1
          /\ ~WriteFailsNow("audit_log") =>
                \E row \in audit_log' : row.event_id[1] = now
          /\ advisory'.reply = "result"

\* C33: insertEntity, insertTrustHistory, insertAuditLog and insertLegalSession
\* return to their caller whether there is no database or the statement raises
\* an error: the caller runs on (its later writes are made, its event is sent,
\* its answer is returned), and a write that failed has changed none of the four
\* tables.
C33_WritesNeverThrow == [][WriteHelperStep]_vars

\* with the database open: a capture was reconciled while the entity upsert
\* failed and the later writes went through, and an advisory answer was returned
\* while the legal_sessions insert failed
C33_Witness ==
    /\ dbOpen
    /\ \E i \in DOMAIN tasks : AnalyzedOk(i)
    /\ entities = {}
    /\ trust_history # << >>
    /\ published # << >>
    /\ advisory.st = "done"
    /\ advisory.reply = "result"
    /\ legal_sessions = << >>
    /\ \E row \in audit_log : row.event_type = "LEGAL_CHAT_USED"

-----------------------------------------------------------------------------
(* The monitor after a capture was sent *)

\* no extraction callback is pending and no mutation can schedule one
MonitorInactive ==
    /\ _textDebounceTimer = Off
    /\ _textCeilingTimer = Off
    /\ ~_textMutObserver

\* a capture of the URL shown was sent by the document shown
CapturedHere == [load |-> loads, url |-> href] \in sentLog

\* the webview stays on the page: no document load, no change of URL
StaysOnPage == loads' = loads /\ href' = href

SentStep ==
    /\ sentLog' # sentLog => MonitorInactive'
    /\ CapturedHere /\ MonitorInactive /\ StaysOnPage => MonitorInactive'

-----------------------------------------------------------------------------
(* The findings list of an entity *)

\* the fields an analysis lists its findings under
FindingsFields == {"explanation", "forensic_explanation"}

\* `o` has a findings list (which may be empty)
CarriesFindings(o) == \E k \in FindingsFields : Has(o, k)

CachedWithFindings == \A id \in DOMAIN ENTITY_CACHE : CarriesFindings(ENTITY_CACHE[id])

PublishedWithFindings == \A n \in DOMAIN published : CarriesFindings(published[n].payload)

StoredWithFindings == \A row \in entities : CarriesFindings(row.analysis_json)

\* C35: every entity in the cache, every stored entity row and every published
\* event carries a findings list, empty or not, whichever pipeline made it and
\* whether or not the enrichment succeeded.
C35_FindingsAlwaysList ==
    /\ CachedWithFindings
    /\ PublishedWithFindings
    /\ StoredWithFindings

-----------------------------------------------------------------------------
(* What callGeminiAnalysis makes of incomplete responses *)

MaxEnrichCaptures == 2   \* pipeline invocations per behaviour of SpecEnrich

\* the fields the prompt asks the provider for
RequiredFields ==
    { "summary", "topic", "key_claims", "ai_generated_probability",
      "misinformation_risk", "credibility_score", "forensic_explanation" }

Without(o, k) == [x \in (DOMAIN o) \ {k} |-> o[x]]

\* scores a provider may return (percent): the ends of the range, and beyond
EdgeScores == {0, 100, 170}

\* text that does not parse, the full object, the object less one field, and
\* the object with both scores at an edge
EnrichResponses ==
    { [kind |-> "garbage", parsed |-> EmptyObj], GeminiAnswer(GeminiGood) }
    \cup { GeminiAnswer(Without(GeminiGood, k)) : k \in RequiredFields }
    \cup { GeminiAnswer([GeminiGood EXCEPT !.ai_generated_probability = x,
                                           !.credibility_score = x]) : x \in EdgeScores }

NextEnrich ==
    \/ IpcTextArticle(MaxEnrichCaptures)
    \/ BackendTextOk({[ai_generated_probability |-> 20, misinformation_risk |-> "LOW",
                       credibility_score |-> 70, explanation |-> <<"p1">>]})
    \/ GeminiSettleWith(EnrichResponses, TRUE)
    \/ CompleteText

SpecEnrich == Init /\ [][NextEnrich]_vars

\* the response does not parse, or parses to an object lacking a required field
Deficient(r) ==
    \/ r.kind = "garbage"
    \/ r.kind = "json" /\ \E k \in RequiredFields : ~Has(r.parsed, k)

\* C36: an enrichment response that does not parse as JSON, or that lacks one of
\* the seven required fields, counts as a failure of the provider: the call
\* yields no enrichment (null).
C36_IncompleteResponseRejected ==
    queried.op = "callGeminiAnalysis" /\ Deficient(queried.args.response) =>
        tasks[queried.args.task].gemini.st = "null"

\* the same, for a response that does not parse or has no summary
UnparsedOrNoSummaryRejected ==
    ( /\ queried.op = "callGeminiAnalysis"
      /\ \/ queried.args.response.kind = "garbage"
         \/ ~Has(queried.args.response.parsed, "summary") ) =>
        tasks[queried.args.task].gemini.st = "null"

-----------------------------------------------------------------------------
(* One audit row per audited action *)

\* C37: with the database open and its statements working, every invocation
\* that called insertAuditLog (a reconciliation, a failed analysis) has added one
\* row of its own to audit_log, also when several of them ran at the same
\* instant: there are as many rows as audited actions.
C37_OneRowPerAuditedAction ==
    dbOpen => Cardinality(audit_log) = Cardinality(AuditWriters)

-----------------------------------------------------------------------------
(* The event types of the audit log *)

EventTypes ==
    { "ENTITY_DETECTED", "ENTITY_VIEWED", "LEGAL_CHAT_USED", "PDF_EXPORTED",
      "MANUAL_ANALYSIS", "ANALYSIS_FAILED" }

\* C38: every audit_log row has one of the six event types, whichever handler
\* wrote it.
C38_EventTypeClosed == \A row \in audit_log : row.event_type \in EventTypes

-----------------------------------------------------------------------------
(* Cache and entities relation under interleaved completions *)

RowsFor(id) == {row \in entities : row.entity_id = id}

OneRowPerCachedId ==
    dbOpen => \A id \in DOMAIN ENTITY_CACHE : Cardinality(RowsFor(id)) = 1

\* the completion that reconciles in this step leaves its entity in the cache
\* and, through the upsert of the same step, in the row of the entity's id
SameAnalysisStep ==
    /\ \A i \in ReconciledNow :
          LET e == merged'[i]
          IN  /\ Has(ENTITY_CACHE', e.entity_id)
              /\ ENTITY_CACHE'[e.entity_id] = e
              /\ dbOpen => \E row \in entities' :
                               /\ row.entity_id = e.entity_id
                               /\ RowAgrees(row, e)
    /\ ReconciledNow = {} => ENTITY_CACHE' = ENTITY_CACHE /\ entities' = entities

\* C39: with the database open, however the completions of the pipelines
\* interleave, every cached entity_id has exactly one entities row, and cache
\* entry and row are always written together by one completion: after each
\* completion both hold the analysis of that completion, the latest one.
C39_CacheAndRowAgree == []OneRowPerCachedId /\ [][SameAnalysisStep]_vars

\* two invocations resolved to one entity_id with different analyses and
\* completed out of order: the one started first completed last and holds the
\* cache entry and the row
C39_Witness ==
    /\ dbOpen
    /\ \E i \in DOMAIN merged, j \in DOMAIN merged :
          /\ i < j
          /\ merged[i].entity_id = merged[j].entity_id
          /\ merged[i].trust_score # merged[j].trust_score
          /\ ENTITY_CACHE[merged[i].entity_id] = merged[i]
          /\ \E row \in RowsFor(merged[i].entity_id) : RowAgrees(row, merged[i])
          /\ \A row \in RowsFor(merged[i].entity_id) : ~RowAgrees(row, merged[j])

-----------------------------------------------------------------------------
(* Normalization of the enrichment scores *)

NormalizedScores == {"ai_generated_probability", "credibility_score"}

\* the score k of the accepted response is kept as returned
ScoreKept(k) ==
    LET parsed == queried.args.response.parsed
    IN  Has(parsed, k) /\ parsed[k] \in 0..100 =>
            tasks[queried.args.task].gemini.val[k] = parsed[k]

Accepted ==
    /\ queried.op = "callGeminiAnalysis"
    /\ tasks[queried.args.task].gemini.st = "ok"

\* C40: a score of an accepted enrichment response that is a number in [0, 1]
\* comes out of the normalization as it was returned.
C40_InRangeUnchanged == Accepted => \A k \in NormalizedScores : ScoreKept(k)

\* the same for ai_generated_probability alone
ProbabilityKept == Accepted => ScoreKept("ai_generated_probability")

====
